---------------------------- MODULE Spec2Model ----------------------------
(***************************************************************************)
(* A model of the comment-encryption extension of src/js/valine-encryption.js *)
(* (the "enhanced" module, lines 419-1608) and of its configuration file.    *)
(*                                                                           *)
(* Strings are sequences of UTF-16 code units (natural numbers), byte        *)
(* arrays are sequences of numbers in 0..255.  A call that can throw or      *)
(* return null yields a record [ok, thrown, v]: Ok(x), Throw or Null.       *)
(*                                                                           *)
(* The platform primitives are modelled by their contracts:                  *)
(*   - btoa / atob, TextEncoder / TextDecoder, encodeURIComponent / escape  *)
(*     are computed (base64 and UTF-8 on the code units);                    *)
(*   - PBKDF2 is an ideal key derivation: the key is the triple of its       *)
(*     inputs, so two keys are equal exactly when password, salt string and  *)
(*     iteration count are equal;                                            *)
(*   - AES-GCM is an ideal authenticated cipher: the ciphertext-and-tag      *)
(*     bytes of an encryption are arbitrary bytes drawn at encryption time  *)
(*     and remembered in the table gcm; decryption succeeds exactly on the  *)
(*     (key, iv, bytes) triples of the table;                                *)
(*   - crypto.getRandomValues returns values it has not returned before;     *)
(*     Math.random may return any value of its range.                        *)
(***************************************************************************)
EXTENDS Integers, Sequences, FiniteSets, TLC

----------------------------------------------------------------------------
(* Results of calls that may throw, or return null.                         *)

\* The call returned x.
Ok(x) == [ok |-> TRUE, thrown |-> FALSE, v |-> x]

\* The call threw (an async function: its promise was rejected).
Throw == [ok |-> FALSE, thrown |-> TRUE, v |-> <<>>]

\* The call returned null, as decrypt and fallbackDecrypt do on failure.
Null == [ok |-> FALSE, thrown |-> FALSE, v |-> <<>>]

\* The sequence f, with its elements computed once.
AsTuple(f) == f \o <<>>

----------------------------------------------------------------------------
(* Bit operations on code units.                                            *)

RECURSIVE BitXor(_, _)
\* a ^ b of JavaScript, for non-negative operands.
BitXor(a, b) ==
    IF a = 0 THEN b
    ELSE IF b = 0 THEN a
    ELSE (((a % 2) + (b % 2)) % 2) + 2 * BitXor(a \div 2, b \div 2)

\* The table of a ^ b on four-bit operands: NibbleXor[a + 1][b + 1] = a ^ b.
NibbleXor ==
    <<<<0, 1, 2, 3, 4, 5, 6, 7, 8, 9, 10, 11, 12, 13, 14, 15>>,
      <<1, 0, 3, 2, 5, 4, 7, 6, 9, 8, 11, 10, 13, 12, 15, 14>>,
      <<2, 3, 0, 1, 6, 7, 4, 5, 10, 11, 8, 9, 14, 15, 12, 13>>,
      <<3, 2, 1, 0, 7, 6, 5, 4, 11, 10, 9, 8, 15, 14, 13, 12>>,
      <<4, 5, 6, 7, 0, 1, 2, 3, 12, 13, 14, 15, 8, 9, 10, 11>>,
      <<5, 4, 7, 6, 1, 0, 3, 2, 13, 12, 15, 14, 9, 8, 11, 10>>,
      <<6, 7, 4, 5, 2, 3, 0, 1, 14, 15, 12, 13, 10, 11, 8, 9>>,
      <<7, 6, 5, 4, 3, 2, 1, 0, 15, 14, 13, 12, 11, 10, 9, 8>>,
      <<8, 9, 10, 11, 12, 13, 14, 15, 0, 1, 2, 3, 4, 5, 6, 7>>,
      <<9, 8, 11, 10, 13, 12, 15, 14, 1, 0, 3, 2, 5, 4, 7, 6>>,
      <<10, 11, 8, 9, 14, 15, 12, 13, 2, 3, 0, 1, 6, 7, 4, 5>>,
      <<11, 10, 9, 8, 15, 14, 13, 12, 3, 2, 1, 0, 7, 6, 5, 4>>,
      <<12, 13, 14, 15, 8, 9, 10, 11, 4, 5, 6, 7, 0, 1, 2, 3>>,
      <<13, 12, 15, 14, 9, 8, 11, 10, 5, 4, 7, 6, 1, 0, 3, 2>>,
      <<14, 15, 12, 13, 10, 11, 8, 9, 6, 7, 4, 5, 2, 3, 0, 1>>,
      <<15, 14, 13, 12, 11, 10, 9, 8, 7, 6, 5, 4, 3, 2, 1, 0>>>>

\* a ^ b, by the table on the two halves of a byte.
Xor(a, b) ==
    IF a < 256 /\ b < 256
    THEN 16 * NibbleXor[(a \div 16) + 1][(b \div 16) + 1]
         + NibbleXor[(a % 16) + 1][(b % 16) + 1]
    ELSE BitXor(a, b)

----------------------------------------------------------------------------
(* Strings.                                                                 *)

\* s.substring(n) for 0 <= n.
Substring(s, n) == IF n >= Len(s) THEN <<>> ELSE SubSeq(s, n + 1, Len(s))

\* s.startsWith(p)
StartsWith(s, p) == Len(s) >= Len(p) /\ SubSeq(s, 1, Len(p)) = p

\* s.split('').reverse().join('')
Reverse(s) == AsTuple([i \in 1..Len(s) |-> s[Len(s) + 1 - i]])

\* White space as String.prototype.trim and /\s/ see it: WhiteSpace and
\* LineTerminator of ECMAScript.
IsSpace(c) ==
    \/ c \in {9, 10, 11, 12, 13, 32, 160, 5760, 8232, 8233, 8239, 8287, 12288,
              65279}
    \/ c >= 8192 /\ c <= 8202

\* ASCII white space, as the HTML standard's base64 decoding drops it.
IsAsciiSpace(c) == c \in {9, 10, 12, 13, 32}

RECURSIVE TrimLeft(_)
TrimLeft(s) ==
    IF s # <<>> /\ IsSpace(Head(s)) THEN TrimLeft(Tail(s)) ELSE s

\* s.trim()
Trim(s) == Reverse(TrimLeft(Reverse(TrimLeft(s))))

\* s.replace(/\s/g, '')
StripSpace(s) == SelectSeq(s, LAMBDA c : ~IsSpace(c))

----------------------------------------------------------------------------
(* Base64: window.btoa and window.atob.                                     *)

\* The base64 alphabet, as code units: A-Z a-z 0-9 + /
B64Alphabet ==
    [i \in 1..64 |->
        IF i <= 26 THEN 64 + i
        ELSE IF i <= 52 THEN 70 + i
        ELSE IF i <= 62 THEN i - 5
        ELSE IF i = 63 THEN 43 ELSE 47]

IsB64Char(c) ==
    \/ c >= 65 /\ c <= 90
    \/ c >= 97 /\ c <= 122
    \/ c >= 48 /\ c <= 57
    \/ c = 43
    \/ c = 47

\* The six-bit value of an alphabet character.
B64Value(c) ==
    IF c >= 65 /\ c <= 90 THEN c - 65
    ELSE IF c >= 97 /\ c <= 122 THEN c - 71
    ELSE IF c >= 48 /\ c <= 57 THEN c + 4
    ELSE IF c = 43 THEN 62 ELSE 63

\* btoa(s): InvalidCharacterError when a code unit is above 255.
btoa(s) ==
    IF \E i \in 1..Len(s) : s[i] > 255 THEN Throw
    ELSE
      LET n == Len(s)
          at(i) == IF i <= n THEN s[i] ELSE 0
          group(g) == at(3 * g + 1) * 65536 + at(3 * g + 2) * 256 + at(3 * g + 3)
          sextet(g, k) ==
              IF k = 0 THEN group(g) \div 262144
              ELSE IF k = 1 THEN (group(g) \div 4096) % 64
              ELSE IF k = 2 THEN (group(g) \div 64) % 64
              ELSE group(g) % 64
          char(g, k) ==
              IF (k = 2 /\ 3 * g + 2 > n) \/ (k = 3 /\ 3 * g + 3 > n)
              THEN 61   \* '='
              ELSE B64Alphabet[sextet(g, k) + 1]
      IN  Ok(AsTuple([i \in 1..(4 * ((n + 2) \div 3)) |->
                         char((i - 1) \div 4, (i - 1) % 4)]))

\* atob(s), the forgiving base64 decoding of the HTML standard: white space
\* is dropped, one or two trailing '=' are dropped when the length is a
\* multiple of four, then a length of 1 modulo 4 or any character outside
\* the alphabet is an InvalidCharacterError.
atob(s) ==
    LET t == SelectSeq(s, LAMBDA c : ~IsAsciiSpace(c))
        n == Len(t)
        d == IF n > 0 /\ n % 4 = 0 /\ t[n] = 61
             THEN IF t[n - 1] = 61
                  THEN SubSeq(t, 1, n - 2)
                  ELSE SubSeq(t, 1, n - 1)
             ELSE t
        m == Len(d)
        val(i) == B64Value(d[i])
        byte(j) ==
            LET bit == (j - 1) * 8
                q == (bit \div 6) + 1
                o == bit % 6
            IN  ((val(q) * 64 + val(q + 1)) \div (2 ^ (4 - o))) % 256
    IN  IF m % 4 = 1 \/ (\E i \in 1..m : ~IsB64Char(d[i]))
        THEN Throw
        ELSE Ok(AsTuple([j \in 1..((m * 6) \div 8) |-> byte(j)]))

----------------------------------------------------------------------------
(* UTF-8: TextEncoder, TextDecoder, encodeURIComponent and escape.          *)

IsHighSurrogate(c) == c >= 55296 /\ c <= 56319

IsLowSurrogate(c) == c >= 56320 /\ c <= 57343

\* The UTF-8 bytes of one code point.
Utf8OfCodePoint(cp) ==
    IF cp < 128 THEN <<cp>>
    ELSE IF cp < 2048 THEN <<192 + (cp \div 64), 128 + (cp % 64)>>
    ELSE IF cp < 65536
         THEN <<224 + (cp \div 4096), 128 + ((cp \div 64) % 64),
                128 + (cp % 64)>>
         ELSE <<240 + (cp \div 262144), 128 + ((cp \div 4096) % 64),
                128 + ((cp \div 64) % 64), 128 + (cp % 64)>>

\* The UTF-8 bytes of a string.  A high surrogate followed by a low one is
\* one code point; any other surrogate is alone, and becomes U+FFFD when
\* lenient (TextEncoder) or is an error (encodeURIComponent's URIError).
Utf8Encode(s, lenient) ==
    LET n == Len(s)
        pairedAt(i) == IsHighSurrogate(s[i]) /\ i < n /\ IsLowSurrogate(s[i + 1])
        consumedAt(i) == IsLowSurrogate(s[i]) /\ i > 1 /\ IsHighSurrogate(s[i - 1])
        loneAt(i) == /\ IsHighSurrogate(s[i]) \/ IsLowSurrogate(s[i])
                     /\ ~pairedAt(i)
                     /\ ~consumedAt(i)
        bytesAt(i) ==
            IF pairedAt(i)
            THEN Utf8OfCodePoint(65536 + (s[i] - 55296) * 1024 + (s[i + 1] - 56320))
            ELSE IF consumedAt(i) THEN <<>>
            ELSE IF loneAt(i) THEN <<239, 191, 189>>
            ELSE Utf8OfCodePoint(s[i])
        table == AsTuple([i \in 1..n |-> bytesAt(i)])
        slots == SelectSeq([j \in 1..(4 * n) |-> j],
                           LAMBDA j : ((j - 1) % 4) + 1 <= Len(table[((j - 1) \div 4) + 1]))
    IN  IF ~lenient /\ \E i \in 1..n : loneAt(i) THEN Throw
        ELSE Ok(AsTuple([k \in 1..Len(slots) |->
                    table[((slots[k] - 1) \div 4) + 1][((slots[k] - 1) % 4) + 1]]))

\* new TextEncoder().encode(s)
TextEncode(s) == Utf8Encode(s, TRUE).v

\* unescape(encodeURIComponent(s)): the UTF-8 bytes as a binary string.
Utf8Binary(s) == Utf8Encode(s, FALSE)

IsCont(b) == b >= 128 /\ b <= 191

\* The code units of a code point.
UnitsOfCodePoint(cp) ==
    IF cp < 65536 THEN <<cp>>
    ELSE <<55296 + ((cp - 65536) \div 1024), 56320 + ((cp - 65536) % 1024)>>

\* The length of the UTF-8 sequence a byte opens; 0 for a byte that opens
\* none (a continuation byte, 0xC0, 0xC1, 0xF5 and above).
Utf8Length(c) ==
    IF c < 128 THEN 1
    ELSE IF c >= 194 /\ c <= 223 THEN 2
    ELSE IF c >= 224 /\ c <= 239 THEN 3
    ELSE IF c >= 240 /\ c <= 244 THEN 4
    ELSE 0

\* The string whose UTF-8 encoding is b; an error when b is not well formed
\* (a stray continuation byte, a truncated or overlong sequence, a surrogate,
\* a value above U+10FFFF, a code unit above 255).
Utf8Decode(b) ==
    LET n == Len(b)
        len(i) == Utf8Length(b[i])
        cpAt(i) ==
            IF len(i) = 1 THEN b[i]
            ELSE IF len(i) = 2 THEN (b[i] - 192) * 64 + (b[i + 1] - 128)
            ELSE IF len(i) = 3
                 THEN (b[i] - 224) * 4096 + (b[i + 1] - 128) * 64 + (b[i + 2] - 128)
                 ELSE (b[i] - 240) * 262144 + (b[i + 1] - 128) * 4096
                      + (b[i + 2] - 128) * 64 + (b[i + 3] - 128)
        \* a continuation byte belongs to the sequence opened before it
        owned(i) == \E d \in 1..3 :
                        /\ i - d >= 1
                        /\ len(i - d) > d
                        /\ \A e \in 1..(d - 1) : IsCont(b[i - e])
        goodAt(i) ==
            IF IsCont(b[i]) THEN owned(i)
            ELSE /\ len(i) > 0
                 /\ i + len(i) - 1 <= n
                 /\ \A e \in 1..(len(i) - 1) : IsCont(b[i + e])
                 /\ (len(i) = 3 => cpAt(i) >= 2048 /\ cpAt(i) \notin 55296..57343)
                 /\ (len(i) = 4 => cpAt(i) >= 65536 /\ cpAt(i) <= 1114111)
        table == AsTuple([i \in 1..n |->
                     IF IsCont(b[i]) THEN <<>> ELSE UnitsOfCodePoint(cpAt(i))])
        slots == SelectSeq([j \in 1..(2 * n) |-> j],
                           LAMBDA j : ((j - 1) % 2) + 1 <= Len(table[((j - 1) \div 2) + 1]))
    IN  IF \E i \in 1..n : ~goodAt(i) THEN Throw
        ELSE Ok(AsTuple([k \in 1..Len(slots) |->
                    table[((slots[k] - 1) \div 2) + 1][((slots[k] - 1) % 2) + 1]]))

\* decodeURIComponent(escape(s)): URIError unless s is well-formed UTF-8.
DecodeBinaryUtf8(s) == Utf8Decode(s)

\* new TextDecoder('utf-8').decode(b).  It is applied to plaintexts AES-GCM
\* authenticated, which TextEncoder made and are well-formed; malformed input
\* would come out as U+FFFD.
TextDecode(b) == IF Utf8Decode(b).ok THEN Utf8Decode(b).v ELSE <<65533>>

----------------------------------------------------------------------------
(* Bounds of the model.                                                     *)

\* How many distinct values window.crypto.getRandomValues can return for
\* one array length.
MaxRandom == 2

\* How many different ciphertext-and-tag byte strings an AES-GCM encryption
\* may come out as.
MaxCipher == 2

----------------------------------------------------------------------------
(* The state.                                                               *)

VARIABLES
    cap,                \* the runtime of the site's pages: "full", or
                        \* "nosubtle" (window.crypto without crypto.subtle,
                        \* as in a page that is not a secure context)
    VALINE_CRYPTO_SALT, \* window.VALINE_CRYPTO_SALT, <<>> when not set
    VALINE_CRYPTO_KEY,  \* window.VALINE_CRYPTO_KEY, <<>> when not set
    pbkdf2Iterations,   \* VALINE_CRYPTO_CONFIG.security.pbkdf2Iterations
    saltLength,         \* VALINE_CRYPTO_CONFIG.security.saltLength
    localStorage,       \* per device: the item valine_crypto_salt, <<>> if none
    valineCrypto,       \* per device: window.ValineCrypto of the open page,
                        \* [initialized, masterKey, salt]
    gcm,                \* the encryptions AES-GCM has made: [key, iv, pt, out]
    usedRandom,         \* the arrays getRandomValues has returned
    enc,                \* the CryptoUtils.encrypt call under study
    again,              \* the result of calling encrypt again, same arguments
    dec,                \* the CryptoUtils.decrypt call under study
    dagain,             \* the result of calling decrypt again, same arguments
    comments,           \* the .vcontent elements of the reader's page
    decryptCalls,       \* the elements attemptDecryption has passed to decrypt
    globalUnlockButton, \* how many #v-crypto-global-unlock buttons the page has
    allowKeyStorage,    \* VALINE_CRYPTO_CONFIG.security.allowKeyStorage
    keyItem,            \* the reader's item valine_crypto_master_key
    keyCall,            \* the last call that reached StorageManager.saveKey
                        \* or clearKey
    ecomment,           \* the ValineEncryption.encrypt call under study
    dcomment,           \* the ValineEncryption.decrypt call under study
    settings,           \* the other values of VALINE_CRYPTO_CONFIG: enabled,
                        \* autoDecrypt, allowGuestUnlock, security.debugMode,
                        \* security.keyStorageExpiry
    resetCall,          \* the resetValineCryptoConfig call, when it is the
                        \* last call of a configuration function
    validation,         \* the last SecurityUtils.validateKeyStrength call
    browser,            \* how the page's browser and the widget dispatch a
                        \* click on the submit button
    form,               \* what enhanceValineForm has added to Valine's form
    textarea,           \* the value of Valine's .veditor
    checkbox,           \* whether the private-comment checkbox is checked
    clicks,             \* the click events dispatched on .vsubmit, in order
    running,            \* the runs of the click listener awaiting encrypt
    clickTimers,        \* the pending 100 ms timers of the click listener
    processTimers,      \* how many 2000 ms timers of the listener are pending
    widgetSubmits,      \* the runs of Valine's own submit handler, in order
    attemptCount,       \* InitManager.attemptCount
    initRuns,           \* how many times initCrypto has run past its guard
    retryTimers,        \* how many retry timers of initCrypto are pending
    eventTimers,        \* how many timers of the DOMContentLoaded and load
                        \* listeners are pending
    readyState,         \* document.readyState
    listeners,          \* the events InitManager.start has added a listener for
    valineReady,        \* whether window.Valine and the .v container exist
    observer,           \* ValineCrypto.observerInitialized, and how many
                        \* MutationObservers observe the container
    processTimeout,     \* whether the timer this.processTimeout is pending
    mutated,            \* whether added nodes await the observers' callback
    valineProperty,     \* the property Valine of window
    originalValine,     \* the const originalValine of the first module
    prototypeInit,      \* how many times extendValine has wrapped the
                        \* prototype.init of each constructor
    assignment          \* the last assignment to window.Valine

configVars ==
    <<cap, VALINE_CRYPTO_SALT, VALINE_CRYPTO_KEY, pbkdf2Iterations, saltLength>>

deviceVars == <<localStorage, valineCrypto>>

codecVars == <<gcm, usedRandom, enc, again, dec, dagain>>

pageVars == <<comments, decryptCalls, globalUnlockButton>>

keyVars == <<allowKeyStorage, keyItem, keyCall>>

legacyVars == <<ecomment, dcomment>>

settingsVars == <<settings, resetCall>>

\* The variables of the parts of the page the codec, the comment list and the
\* key modal do not touch.
adviceVars == <<validation>>

formVars == <<browser, form, textarea, checkbox, clicks, running, clickTimers,
              processTimers, widgetSubmits>>

lifeVars == <<attemptCount, initRuns, retryTimers, eventTimers, readyState,
              listeners, valineReady, observer, processTimeout, mutated>>

hookVars == <<valineProperty, originalValine, prototypeInit, assignment>>

restVars == <<settingsVars, adviceVars, formVars, lifeVars, hookVars>>

vars ==
    <<configVars, deviceVars, codecVars, pageVars, keyVars, legacyVars,
      restVars>>

----------------------------------------------------------------------------
(* CONFIG                                                                   *)

\* CONFIG.ENCRYPTION_MARKER: "[", U+1F512 (two code units), "ENCRYPTED", "]"
ENCRYPTION_MARKER ==
    <<91, 55357, 56594, 69, 78, 67, 82, 89, 80, 84, 69, 68, 93>>

\* CONFIG.FALLBACK_MARKER: "FALLBACK:"
FALLBACK_MARKER == <<70, 65, 76, 76, 66, 65, 67, 75, 58>>

\* CONFIG.IV_LENGTH
IV_LENGTH == 12

\* The length of the authentication tag AES-GCM appends (128 bits, the
\* default of crypto.subtle.encrypt when tagLength is not given).
TAG_LENGTH == 16

\* The defaults of the two `|| 100000` and `|| 16` expressions.
DEFAULT_ITERATIONS == 100000

DEFAULT_SALT_LENGTH == 16

----------------------------------------------------------------------------
(* Randomness.                                                              *)

\* An array of n bytes, all equal to f.
Fill(n, f) == AsTuple([i \in 1..n |-> f])

\* The byte values the random arrays of the model are filled with: the
\* first ones are ASCII, the later ones are not.
RandomFill(k) == IF k % 2 = 1 THEN 16 + k ELSE 143 + k

\* The n-byte arrays the random source of the model can produce: the ones
\* filled with one value and, among those of the length of a nonce, one that
\* begins with the bytes of "FALLBACK:".
RandomArrays(n) ==
    {Fill(n, RandomFill(k)) : k \in 1..MaxRandom} \cup
    (IF n = IV_LENGTH THEN {FALLBACK_MARKER \o <<7, 7, 7>>} ELSE {})

\* window.crypto.getRandomValues(new Uint8Array(n)): the arrays it can
\* return now.  It never returns the same array twice.
getRandomValues(n) == RandomArrays(n) \ usedRandom

\* The ciphertext-and-tag bytes AES-GCM may produce for n bytes of plaintext.
CipherBytes(n) ==
    {Fill(n + TAG_LENGTH, IF k % 2 = 1 THEN 64 + k ELSE 254 - k) :
        k \in 1..MaxCipher}

\* Math.random().toString(36).substring(2, 8)
RandomSuffixes == {Fill(6, 97), Fill(6, 98)}

----------------------------------------------------------------------------
(* SecurityUtils                                                            *)

\* SecurityUtils.arrayBufferToBase64(buffer)
arrayBufferToBase64(buffer) == btoa(buffer).v

\* SecurityUtils.base64ToArrayBuffer(base64)
base64ToArrayBuffer(base64) == atob(StripSpace(Trim(base64)))

\* The default of the parameter of SecurityUtils.generateSalt(length = 16).
GENERATE_SALT_LENGTH == 16

\* SecurityUtils.generateSalt(), given the random array drawn.
generateSalt(array) == arrayBufferToBase64(array)

\* The iteration counts PBKDF2 accepts: [EnforceRange] unsigned long (a
\* TypeError below zero; the upper end, 2^32 - 1, is above every count of
\* the model) and an OperationError for zero.
ValidIterations(n) == n >= 1

\* SecurityUtils.generateStrongKey(password, salt): the derived key, or the
\* exception of importKey / deriveKey.
generateStrongKey(password, salt) ==
    LET iterations == IF pbkdf2Iterations # 0 THEN pbkdf2Iterations
                      ELSE DEFAULT_ITERATIONS
    IN  IF cap # "full" THEN Throw
        ELSE IF ~ValidIterations(iterations) THEN Throw
        ELSE Ok([pw |-> TextEncode(password), salt |-> TextEncode(salt),
                 it |-> iterations])

----------------------------------------------------------------------------
(* AES-GCM                                                                  *)

\* crypto.subtle.decrypt({name: 'AES-GCM', iv}, key, data): the plaintext
\* when data is what an encryption under the same key and iv produced, an
\* OperationError otherwise.
AesGcmDecrypt(key, iv, data) ==
    IF \E r \in gcm : r.key = key /\ r.iv = iv /\ r.out = data
    THEN Ok((CHOOSE r \in gcm : r.key = key /\ r.iv = iv /\ r.out = data).pt)
    ELSE Throw

\* Whether crypto.subtle.encrypt may return out for (key, iv, pt): the
\* cipher is a function, and one-to-one on the plaintexts of a (key, iv).
AesGcmMayProduce(key, iv, pt, out) ==
    \A r \in gcm :
        (r.key = key /\ r.iv = iv) => ((r.pt = pt) <=> (r.out = out))

----------------------------------------------------------------------------
(* CryptoUtils                                                              *)

\* CryptoUtils.createEnhancedKey(masterKey, salt)
createEnhancedKey(masterKey, salt) ==
    LET combined == masterKey \o salt \o Reverse(masterKey)
    IN  AsTuple([i \in 1..Len(combined) |-> Xor(combined[i], (i - 1) % 256)])

\* key.charCodeAt(n % key.length) as the XOR reads it: NaN, hence 0 under ^,
\* when the key is empty.
KeyCharAt(key, n) == IF Len(key) = 0 THEN 0 ELSE key[(n % Len(key)) + 1]

\* One round of the XOR loops of fallbackEncrypt and fallbackDecrypt.
XorRound(text, key, round) ==
    AsTuple([i \in 1..Len(text) |->
        Xor(Xor(text[i], KeyCharAt(key, (i - 1) + round * 7)), round + 1)])

\* The salt string fallbackEncrypt and fallbackDecrypt build the key from.
FallbackSalt(salt, randomSuffix) ==
    IF VALINE_CRYPTO_SALT # <<>>
    THEN VALINE_CRYPTO_SALT \o <<95>> \o salt \o <<95>> \o randomSuffix
    ELSE salt

\* CryptoUtils.fallbackEncrypt(text, masterKey, salt), given the value of
\* Math.random: the payload, or the Error it throws.
fallbackEncrypt(text, masterKey, salt, randomSuffix) ==
    LET enhancedKey == createEnhancedKey(masterKey, FallbackSalt(salt, randomSuffix))
        textToEncode == Utf8Binary(text)
        r0 == XorRound(textToEncode.v, enhancedKey, 0)
        r1 == XorRound(r0, enhancedKey, 1)
        r2 == XorRound(r1, enhancedKey, 2)
    IN  IF ~textToEncode.ok THEN Throw
        ELSE btoa(FALLBACK_MARKER \o r2)

\* fallbackDecrypt with a catch clause that rethrows, as fallbackEncrypt's
\* does, instead of returning null.
fallbackDecryptRethrow(encryptedBase64, masterKey, salt, randomSuffix) ==
    LET decoded == atob(encryptedBase64)
        encryptedText == IF StartsWith(decoded.v, FALLBACK_MARKER)
                         THEN Substring(decoded.v, Len(FALLBACK_MARKER))
                         ELSE decoded.v
        enhancedKey == createEnhancedKey(masterKey, FallbackSalt(salt, randomSuffix))
        r2 == XorRound(encryptedText, enhancedKey, 2)
        r1 == XorRound(r2, enhancedKey, 1)
        r0 == XorRound(r1, enhancedKey, 0)
    IN  IF ~decoded.ok THEN Throw
        ELSE IF ~DecodeBinaryUtf8(r0).ok THEN Throw
        ELSE Ok(DecodeBinaryUtf8(r0).v)

\* CryptoUtils.fallbackDecrypt(encryptedBase64, masterKey, salt), given the
\* value of Math.random: null when atob or decodeURIComponent(escape(..))
\* throws, the decoded text otherwise.
fallbackDecrypt(encryptedBase64, masterKey, salt, randomSuffix) ==
    LET decoded == atob(encryptedBase64)
        encryptedText == IF StartsWith(decoded.v, FALLBACK_MARKER)
                         THEN Substring(decoded.v, Len(FALLBACK_MARKER))
                         ELSE decoded.v
        enhancedKey == createEnhancedKey(masterKey, FallbackSalt(salt, randomSuffix))
        r2 == XorRound(encryptedText, enhancedKey, 2)
        r1 == XorRound(r2, enhancedKey, 1)
        r0 == XorRound(r1, enhancedKey, 0)
    IN  IF ~decoded.ok THEN Null
        ELSE IF ~DecodeBinaryUtf8(r0).ok THEN Null
        ELSE Ok(DecodeBinaryUtf8(r0).v)

\* Lines 521-544 of encrypt: the salt string the key is derived from, given
\* the eight random bytes drawn; an exception when the configured salt length
\* is no array length.
EncryptSalt(salt, randomSalt) ==
    LET len == IF saltLength # 0 THEN saltLength ELSE DEFAULT_SALT_LENGTH
        configSalt == TextEncode(VALINE_CRYPTO_SALT)
        finalSalt == AsTuple([i \in 1..len |->
                         Xor(configSalt[((i - 1) % Len(configSalt)) + 1],
                             randomSalt[((i - 1) % Len(randomSalt)) + 1])])
    IN  IF VALINE_CRYPTO_SALT = <<>> THEN Ok(salt)
        ELSE IF len < 0 THEN Throw
        ELSE Ok(arrayBufferToBase64(finalSalt) \o salt)

\* encrypt with a nonce taken from the salt argument instead of the random
\* array drawn at line 553.
encryptSaltNonce(text, masterKey, salt, rnd) ==
    LET mixed == EncryptSalt(salt, rnd.randomSalt)
        key == generateStrongKey(masterKey, mixed.v)
        data == TextEncode(text)
        ivDrawn == mixed.ok /\ key.ok
        encrypted == rnd.out
        iv == SubSeq(TextEncode(salt) \o Fill(IV_LENGTH, 0), 1, IV_LENGTH)
        result == iv \o encrypted
        \* the value of the variable salt when the catch branch runs
        caughtSalt == IF mixed.ok THEN mixed.v ELSE salt
        usedSalt == IF VALINE_CRYPTO_SALT # <<>>
                    THEN {rnd.randomSalt} ELSE {}
    IN  IF ivDrawn
        THEN [result |-> Ok(arrayBufferToBase64(result)),
              caught |-> FALSE,
              key |-> key,
              entry |-> {[key |-> key.v, iv |-> iv, pt |-> data,
                          out |-> encrypted]},
              drawn |-> usedSalt \cup {rnd.iv}]
        ELSE [result |-> fallbackEncrypt(text, masterKey, caughtSalt, rnd.suffix),
              caught |-> TRUE,
              key |-> Throw,
              entry |-> {},
              drawn |-> usedSalt]

\* CryptoUtils.encrypt(text, masterKey, salt), given the random values rnd =
\* [randomSalt, iv, out, suffix] the call draws.  The record holds the
\* returned payload (or the Error thrown), whether the catch branch ran, the
\* key generateStrongKey derived (if it was called and returned one), the
\* table entry AES-GCM adds and the random arrays consumed.
encrypt(text, masterKey, salt, rnd) ==
    LET mixed == EncryptSalt(salt, rnd.randomSalt)
        key == generateStrongKey(masterKey, mixed.v)
        data == TextEncode(text)
        ivDrawn == mixed.ok /\ key.ok
        encrypted == rnd.out
        result == rnd.iv \o encrypted
        \* the value of the variable salt when the catch branch runs
        caughtSalt == IF mixed.ok THEN mixed.v ELSE salt
        usedSalt == IF VALINE_CRYPTO_SALT # <<>>
                    THEN {rnd.randomSalt} ELSE {}
    IN  IF ivDrawn
        THEN [result |-> Ok(arrayBufferToBase64(result)),
              caught |-> FALSE,
              key |-> key,
              entry |-> {[key |-> key.v, iv |-> rnd.iv, pt |-> data,
                          out |-> encrypted]},
              drawn |-> usedSalt \cup {rnd.iv}]
        ELSE [result |-> fallbackEncrypt(text, masterKey, caughtSalt, rnd.suffix),
              caught |-> TRUE,
              key |-> Throw,
              entry |-> {},
              drawn |-> usedSalt]

\* Lines 619-628 of decrypt: the salt string the key is derived from; an
\* exception when the last twelve characters of salt are not base64.
DecryptSalt(salt) ==
    LET configSalt == TextEncode(VALINE_CRYPTO_SALT)
        start == IF Len(salt) > 12 THEN Len(salt) - 12 ELSE 0
        randomSalt == base64ToArrayBuffer(Substring(salt, start))
    IN  IF VALINE_CRYPTO_SALT = <<>> THEN Ok(salt)
        ELSE IF ~randomSalt.ok THEN Throw
        ELSE Ok(arrayBufferToBase64(configSalt) \o salt)

\* decrypt with a catch clause that rethrows instead of returning what
\* fallbackDecrypt returns.
decryptRethrow(encryptedBase64, masterKey, salt, randomSuffix) ==
    LET decoded == atob(encryptedBase64)
        finalSalt == DecryptSalt(salt)
        key == generateStrongKey(masterKey, finalSalt.v)
        encryptedData == base64ToArrayBuffer(encryptedBase64)
        iv == SubSeq(encryptedData.v, 1,
                     IF Len(encryptedData.v) < IV_LENGTH
                     THEN Len(encryptedData.v) ELSE IV_LENGTH)
        data == Substring(encryptedData.v, IV_LENGTH)
        decrypted == AesGcmDecrypt(key.v, iv, data)
        viaFallback == [result |-> Throw,
                        caught |-> TRUE,
                        key |-> IF decoded.ok /\ finalSalt.ok
                                THEN key ELSE Throw]
    IN  IF ~decoded.ok THEN viaFallback
        ELSE IF StartsWith(decoded.v, FALLBACK_MARKER)
        THEN [result |-> fallbackDecrypt(encryptedBase64, masterKey, salt,
                                         randomSuffix),
              caught |-> FALSE,
              key |-> Throw]
        ELSE IF ~finalSalt.ok \/ ~key.ok \/ ~encryptedData.ok \/ ~decrypted.ok
        THEN viaFallback
        ELSE [result |-> Ok(TextDecode(decrypted.v)),
              caught |-> FALSE,
              key |-> key]

\* CryptoUtils.decrypt(encryptedBase64, masterKey, salt), given the value of
\* Math.random a fallbackDecrypt call would draw.  The record holds the
\* returned text (or null), whether the catch branch ran and the key
\* generateStrongKey derived (if it was called and returned one).
decrypt(encryptedBase64, masterKey, salt, randomSuffix) ==
    LET decoded == atob(encryptedBase64)
        finalSalt == DecryptSalt(salt)
        key == generateStrongKey(masterKey, finalSalt.v)
        encryptedData == base64ToArrayBuffer(encryptedBase64)
        iv == SubSeq(encryptedData.v, 1,
                     IF Len(encryptedData.v) < IV_LENGTH
                     THEN Len(encryptedData.v) ELSE IV_LENGTH)
        data == Substring(encryptedData.v, IV_LENGTH)
        decrypted == AesGcmDecrypt(key.v, iv, data)
        viaFallback == [result |-> fallbackDecrypt(encryptedBase64, masterKey,
                                                   salt, randomSuffix),
                        caught |-> TRUE,
                        key |-> IF decoded.ok /\ finalSalt.ok
                                THEN key ELSE Throw]
    IN  IF ~decoded.ok THEN viaFallback
        ELSE IF StartsWith(decoded.v, FALLBACK_MARKER)
        THEN [result |-> fallbackDecrypt(encryptedBase64, masterKey, salt,
                                         randomSuffix),
              caught |-> FALSE,
              key |-> Throw]
        ELSE IF ~finalSalt.ok \/ ~key.ok \/ ~encryptedData.ok \/ ~decrypted.ok
        THEN viaFallback
        ELSE [result |-> Ok(TextDecode(decrypted.v)),
              caught |-> FALSE,
              key |-> key]

----------------------------------------------------------------------------
(* The inputs of the specifications.                                        *)

\* Plaintexts: "hi", and "caf\u00E9 au lait, merci !!", which is not ASCII and
\* long enough for the XOR loops to reach every part of the key.
Texts ==
    {<<104, 105>>,
     <<99, 97, 102, 233, 32, 97, 117, 32, 108, 97, 105, 116, 44, 32, 109, 101,
       114, 99, 105, 32, 33, 33>>}

\* Secrets: "k1" and "k2".
Keys == {<<107, 49>>, <<107, 50>>}

\* window.VALINE_CRYPTO_SALT: not set, or "pepper".
ConfigSalts == {<<>>, <<112, 101, 112, 112, 101, 114>>}

Caps == {"full", "nosubtle"}

\* security.pbkdf2Iterations as a deployment may configure it: the value of
\* the configuration file, or a count PBKDF2 rejects.
IterationValues == {DEFAULT_ITERATIONS, -1}

\* The devices the site is read on.
Devices == {"author", "reader"}

\* What a stored payload may have become when it is read back: itself, or
\* itself with one byte of the region after the nonce changed (the first
\* ciphertext byte, or the last tag byte).
TamperKinds == {"none", "ct", "tag"}

Tamper(payload, kind) ==
    LET bytes == atob(payload).v
        at == IF kind = "ct" THEN IV_LENGTH + 1 ELSE Len(bytes)
    IN  IF kind = "none" \/ at > Len(bytes) THEN payload
        ELSE arrayBufferToBase64([bytes EXCEPT ![at] = Xor(bytes[at], 1)])

NoCall == [called |-> FALSE]

\* localStorage.getItem(name) when there is no item of that name.
NoItem == [set |-> FALSE, v |-> <<>>]

\* The names of window.VALINE_CRYPTO_PRESETS.
PresetNames == {"blogger", "guest", "development", "production"}

\* security.allowKeyStorage of the preset of that name.
PresetAllowKeyStorage(presetName) == presetName \in {"guest", "development"}

\* security.keyStorageExpiry of the preset 'production': 24 * 60 * 60 * 1000.
PRODUCTION_KEY_STORAGE_EXPIRY == 86400000

\* The values of the configuration file, for the part of VALINE_CRYPTO_CONFIG
\* that settings holds.
DefaultSettings ==
    [enabled |-> TRUE, autoDecrypt |-> TRUE, allowGuestUnlock |-> TRUE,
     debugMode |-> FALSE, keyStorageExpiry |-> 0]

\* deepMerge(window.VALINE_CRYPTO_CONFIG, preset), for the part settings
\* holds: every preset sets autoDecrypt, allowGuestUnlock and debugMode, and
\* 'production' sets keyStorageExpiry.
PresetSettings(presetName, current) ==
    [current EXCEPT
        !.autoDecrypt = presetName \in {"blogger", "development"},
        !.allowGuestUnlock = presetName # "blogger",
        !.debugMode = (presetName = "development"),
        !.keyStorageExpiry = IF presetName = "production"
                             THEN PRODUCTION_KEY_STORAGE_EXPIRY ELSE @]

----------------------------------------------------------------------------
(* The state after the scripts have loaded.                                 *)

\* The dispatch of a click on the submit button is decided by two things the
\* scripts do not control: whether the browser runs the listeners of the
\* target in two phases (capturing ones first, the others only when
\* propagation was not stopped) or all of them in the order they were
\* registered, and whether Valine registered its handler as a capturing
\* listener.
Browsers == [atTarget : {"phases", "registration"}, widgetCapture : BOOLEAN]

\* A browser with the two-phase dispatch, and Valine's handler not capturing.
ModernBrowser == [atTarget |-> "phases", widgetCapture |-> FALSE]

\* Valine has rendered its form and enhanceValineForm has not run on it.
FormNotEnhanced ==
    /\ form = [options |-> 0, listeners |-> 0, cryptoEnhanced |-> FALSE]
    /\ textarea = <<>>
    /\ checkbox = FALSE
    /\ clicks = <<>>
    /\ running = {}
    /\ clickTimers = {}
    /\ processTimers = 0
    /\ widgetSubmits = <<>>

\* The values window.Valine takes: undefined, an object that is no function,
\* and two constructors.
ValineValues == {"undefined", "object", "Valine", "Valine2"}

\* typeof v === 'function'
IsFunction(v) == v \in {"Valine", "Valine2"}

\* Valine's script has defined window.Valine, the first module has run
\* after it and has extended it; originalValine is "unset" before the module
\* runs and "undeclared" when the module has not taken its else branch.
HookNotSet ==
    /\ valineProperty = [kind |-> "data", value |-> "Valine"]
    /\ originalValine = "undeclared"
    /\ prototypeInit = [v \in {"Valine", "Valine2"} |->
                           IF v = "Valine" THEN 1 ELSE 0]
    /\ assignment = NoCall

\* InitManager.start has not run and nothing observes the container.
NotStarted ==
    /\ attemptCount = 0
    /\ initRuns = 0
    /\ retryTimers = 0
    /\ eventTimers = 0
    /\ listeners = {}
    /\ observer = [initialized |-> FALSE, installed |-> 0]
    /\ processTimeout = FALSE
    /\ mutated = FALSE

\* No page has initialised window.ValineCrypto, nothing is stored, nothing
\* is rendered.
Fresh(b) ==
    /\ localStorage = [d \in Devices |-> <<>>]
    /\ valineCrypto = [d \in Devices |->
                         [initialized |-> FALSE, masterKey |-> <<>>, salt |-> <<>>]]
    /\ gcm = {}
    /\ usedRandom = {}
    /\ enc = NoCall
    /\ again = NoCall
    /\ dec = NoCall
    /\ dagain = NoCall
    /\ comments = <<>>
    /\ decryptCalls = {}
    /\ globalUnlockButton = 0
    \* the configuration file ends by applying the preset 'blogger'
    /\ allowKeyStorage = PresetAllowKeyStorage("blogger")
    \* initConfig disables the system where crypto.subtle is missing
    /\ settings = [PresetSettings("blogger", DefaultSettings)
                      EXCEPT !.enabled = (cap = "full")]
    /\ resetCall = NoCall
    /\ validation = NoCall
    /\ browser = b
    /\ FormNotEnhanced
    /\ keyItem = NoItem
    /\ keyCall = NoCall
    /\ ecomment = NoCall
    /\ dcomment = NoCall

\* The scripts have loaded and nothing else has run.
Untouched(b) == Fresh(b) /\ HookNotSet

\* No script has run: window.Valine is undefined and InitManager.start has
\* not been called.
NothingLoaded ==
    /\ Fresh(ModernBrowser)
    /\ NotStarted
    /\ readyState = "loading"
    /\ valineReady = FALSE
    /\ valineProperty = [kind |-> "data", value |-> "undefined"]
    /\ originalValine = "unset"
    /\ prototypeInit = [v \in {"Valine", "Valine2"} |-> 0]
    /\ assignment = NoCall

\* The scripts are running in a document in the given state, with or without
\* Valine, and InitManager.start has not run.
ScriptRunning(b, state, ready) ==
    /\ Untouched(b)
    /\ NotStarted
    /\ readyState = state
    /\ valineReady = ready

\* The same, in a page that has loaded and holds Valine's container.
NothingRunIn(b) == ScriptRunning(b, "complete", TRUE)

\* The same, in a browser with the two-phase dispatch.
NothingRun == NothingRunIn(ModernBrowser)

\* A deployment with the master key "k1", in any runtime, with or without a
\* deployment salt, with a valid or an invalid iteration count.
Init ==
    /\ cap \in Caps
    /\ VALINE_CRYPTO_SALT \in ConfigSalts
    /\ VALINE_CRYPTO_KEY = <<107, 49>>
    /\ pbkdf2Iterations \in IterationValues
    /\ saltLength = DEFAULT_SALT_LENGTH
    /\ NothingRun

----------------------------------------------------------------------------
(* StorageManager and ValineCrypto.init                                     *)

\* StorageManager.getSalt() on device d, given the array generateSalt would
\* draw: the salt returned, and stored when there was none.
getSalt(d, array) ==
    IF localStorage[d] # <<>> THEN localStorage[d] ELSE generateSalt(array)

\* ValineCrypto.init() in the page open on device d: what it does to the
\* storage, to window.ValineCrypto and to the random source.
init(d) ==
    IF valineCrypto[d].initialized
    THEN UNCHANGED <<localStorage, valineCrypto, usedRandom>>
    ELSE \E array \in (IF localStorage[d] # <<>> THEN {<<>>}
                       ELSE getRandomValues(GENERATE_SALT_LENGTH)) :
            /\ localStorage' = [localStorage EXCEPT ![d] = getSalt(d, array)]
            /\ valineCrypto' = [valineCrypto EXCEPT ![d] =
                                   [initialized |-> TRUE,
                                    masterKey |-> VALINE_CRYPTO_KEY,
                                    salt |-> getSalt(d, array)]]
            /\ usedRandom' = usedRandom \cup
                                 (IF localStorage[d] # <<>> THEN {} ELSE {array})

\* A page on device d that has not done so calls ValineCrypto.init() (from
\* enhanceValineForm or processComments).
InitPage(d) ==
    /\ ~valineCrypto[d].initialized
    /\ init(d)
    /\ UNCHANGED <<keyVars, legacyVars>>
    /\ UNCHANGED restVars
    /\ UNCHANGED <<configVars, gcm, enc, again, dec, dagain, pageVars>>

----------------------------------------------------------------------------
(* Calls of CryptoUtils.encrypt and CryptoUtils.decrypt.  The callers       *)
(* (bindSubmitHandler, attemptDecryption, decryptSingleComment) pass        *)
(* this.salt of the page they run in.                                       *)

\* The random values one encrypt call may draw.
Draws(text) ==
    [randomSalt : IF VALINE_CRYPTO_SALT # <<>> THEN getRandomValues(8)
                  ELSE {<<>>},
     iv : getRandomValues(IV_LENGTH),
     out : CipherBytes(Len(TextEncode(text))),
     suffix : IF VALINE_CRYPTO_SALT # <<>> THEN RandomSuffixes ELSE {<<>>}]

\* await CryptoUtils.encrypt(text, masterKey, this.salt) on device d: the
\* call under study.
Encrypt(d) ==
    /\ valineCrypto[d].initialized
    /\ ~enc.called
    /\ \E text \in Texts, masterKey \in Keys :
        \E rnd \in Draws(text) :
        \E call \in {encrypt(text, masterKey, valineCrypto[d].salt, rnd)} :
            /\ \A e \in call.entry : AesGcmMayProduce(e.key, e.iv, e.pt, e.out)
            /\ enc' = [called |-> TRUE, device |-> d, text |-> text,
                       masterKey |-> masterKey, salt |-> valineCrypto[d].salt,
                       result |-> call.result, caught |-> call.caught,
                       key |-> call.key]
            /\ gcm' = gcm \cup call.entry
            /\ usedRandom' = usedRandom \cup call.drawn
    /\ UNCHANGED <<keyVars, legacyVars>>
    /\ UNCHANGED restVars
    /\ UNCHANGED <<configVars, deviceVars, again, dec, dagain, pageVars>>

\* A second await CryptoUtils.encrypt(text, masterKey, salt) with the
\* arguments of the call under study.
EncryptAgain ==
    /\ enc.called
    /\ ~again.called
    /\ \E rnd \in Draws(enc.text) :
        \E call \in {encrypt(enc.text, enc.masterKey, enc.salt, rnd)} :
            /\ \A e \in call.entry : AesGcmMayProduce(e.key, e.iv, e.pt, e.out)
            /\ again' = [called |-> TRUE, result |-> call.result,
                         caught |-> call.caught]
            /\ gcm' = gcm \cup call.entry
            /\ usedRandom' = usedRandom \cup call.drawn
    /\ UNCHANGED <<keyVars, legacyVars>>
    /\ UNCHANGED restVars
    /\ UNCHANGED <<configVars, deviceVars, enc, dec, dagain, pageVars>>

\* await CryptoUtils.decrypt(encryptedBase64, masterKey, this.salt) on device
\* d, for the payload of the call under study as the comment store hands it
\* back: the decrypt call under study.
Decrypt(d) ==
    /\ valineCrypto[d].initialized
    /\ enc.called
    /\ enc.result.ok
    /\ ~dec.called
    /\ \E kind \in TamperKinds, masterKey \in Keys :
        \E randomSuffix \in
               (IF VALINE_CRYPTO_SALT # <<>> THEN RandomSuffixes ELSE {<<>>}) :
        \E encryptedBase64 \in {Tamper(enc.result.v, kind)} :
        \E call \in {decrypt(encryptedBase64, masterKey, valineCrypto[d].salt,
                             randomSuffix)} :
            /\ dec' = [called |-> TRUE, device |-> d,
                       encryptedBase64 |-> encryptedBase64, tamper |-> kind,
                       masterKey |-> masterKey, salt |-> valineCrypto[d].salt,
                       result |-> call.result, caught |-> call.caught,
                       key |-> call.key]
    /\ UNCHANGED <<keyVars, legacyVars>>
    /\ UNCHANGED restVars
    /\ UNCHANGED <<configVars, deviceVars, gcm, usedRandom, enc, again, dagain,
                   pageVars>>

\* A second await CryptoUtils.decrypt(encryptedBase64, masterKey, salt) with
\* the arguments of the call under study.
DecryptAgain ==
    /\ dec.called
    /\ ~dagain.called
    /\ \E randomSuffix \in
               (IF VALINE_CRYPTO_SALT # <<>> THEN RandomSuffixes ELSE {<<>>}) :
        \E call \in {decrypt(dec.encryptedBase64, dec.masterKey, dec.salt,
                             randomSuffix)} :
            dagain' = [called |-> TRUE, result |-> call.result]
    /\ UNCHANGED <<keyVars, legacyVars>>
    /\ UNCHANGED restVars
    /\ UNCHANGED <<configVars, deviceVars, gcm, usedRandom, enc, again, dec,
                   pageVars>>

\* Pages that encrypt, twice with the same arguments.
EncodeNext ==
    \/ \E d \in Devices : InitPage(d)
    \/ \E d \in Devices : Encrypt(d)
    \/ EncryptAgain

EncodeSpec == Init /\ [][EncodeNext]_vars

\* Pages that encrypt a text and pages that decrypt what was stored.
DecodeNext ==
    \/ \E d \in Devices : InitPage(d)
    \/ \E d \in Devices : Encrypt(d)
    \/ \E d \in Devices : Decrypt(d)
    \/ DecryptAgain

DecodeSpec == Init /\ [][DecodeNext]_vars

----------------------------------------------------------------------------
(* The configuration changed while pages run.                               *)

\* The paths of VALINE_CRYPTO_CONFIG the codec reads.
ConfigPaths == {"security.pbkdf2Iterations", "security.saltLength"}

\* The values a script may set them to.
ConfigValues == {0, DEFAULT_SALT_LENGTH}

\* window.setValineCryptoConfig(path, value)
setValineCryptoConfig(path, value) ==
    /\ pbkdf2Iterations' = IF path = "security.pbkdf2Iterations" THEN value
                           ELSE pbkdf2Iterations
    /\ saltLength' = IF path = "security.saltLength" THEN value
                     ELSE saltLength
    /\ resetCall' = NoCall
    /\ UNCHANGED <<settings, adviceVars, formVars, lifeVars, hookVars>>
    /\ UNCHANGED <<cap, VALINE_CRYPTO_SALT, VALINE_CRYPTO_KEY, deviceVars,
                   codecVars, pageVars, keyVars, legacyVars>>

\* The configuration of the repository: crypto.subtle is there, no
\* deployment salt, the security block of the configuration file.
ConfigInit ==
    /\ cap = "full"
    /\ VALINE_CRYPTO_SALT = <<>>
    /\ VALINE_CRYPTO_KEY = <<107, 49>>
    /\ pbkdf2Iterations = DEFAULT_ITERATIONS
    /\ saltLength = DEFAULT_SALT_LENGTH
    /\ NothingRun

\* Pages that encrypt and decrypt while a script changes the configuration.
ConfigNext ==
    \/ \E d \in Devices : InitPage(d)
    \/ \E d \in Devices : Encrypt(d)
    \/ \E path \in ConfigPaths, value \in ConfigValues :
           setValineCryptoConfig(path, value)
    \/ \E d \in Devices : Decrypt(d)

ConfigSpec == ConfigInit /\ [][ConfigNext]_vars

----------------------------------------------------------------------------
(* Calls through window.ValineCryptoUtils, with arguments of any kind.      *)

\* Secrets a caller may pass: "", "k1" and "k\u20AC".
Secrets == {<<>>, <<107, 49>>, <<107, 8364>>}

\* Salts a caller may pass: "s!", which is not base64, and a salt
\* generateSalt made.
ApiSalts == {<<115, 33>>, generateSalt(Fill(GENERATE_SALT_LENGTH, RandomFill(1)))}

\* The first Len(s) - n characters of s.
DropLast(s, n) == SubSeq(s, 1, IF Len(s) > n THEN Len(s) - n ELSE 0)

\* Strings a caller may pass to decrypt: "", "!!" (not base64), "QUJD" (the
\* three bytes "ABC", less than a nonce), and a payload encrypt returned,
\* whole or cut short by one or by four characters.
ApiPayloads ==
    {<<>>, <<33, 33>>, <<81, 85, 74, 68>>} \cup
    (IF enc.called /\ enc.result.ok
     THEN {enc.result.v, DropLast(enc.result.v, 1), DropLast(enc.result.v, 4)}
     ELSE {})

\* await ValineCryptoUtils.CryptoUtils.encrypt(text, masterKey, salt)
ApiEncrypt ==
    /\ ~enc.called
    /\ \E text \in Texts, masterKey \in Secrets, salt \in ApiSalts :
        \E rnd \in Draws(text) :
        \E call \in {encrypt(text, masterKey, salt, rnd)} :
            /\ \A e \in call.entry : AesGcmMayProduce(e.key, e.iv, e.pt, e.out)
            /\ enc' = [called |-> TRUE, device |-> "api", text |-> text,
                       masterKey |-> masterKey, salt |-> salt,
                       result |-> call.result, caught |-> call.caught,
                       key |-> call.key]
            /\ gcm' = gcm \cup call.entry
            /\ usedRandom' = usedRandom \cup call.drawn
    /\ UNCHANGED <<keyVars, legacyVars>>
    /\ UNCHANGED restVars
    /\ UNCHANGED <<configVars, deviceVars, again, dec, dagain, pageVars>>

\* await ValineCryptoUtils.CryptoUtils.decrypt(encryptedBase64, masterKey,
\* salt)
ApiDecrypt ==
    /\ ~dec.called
    /\ \E encryptedBase64 \in ApiPayloads, masterKey \in Secrets,
          salt \in ApiSalts :
        \E randomSuffix \in
               (IF VALINE_CRYPTO_SALT # <<>> THEN RandomSuffixes ELSE {<<>>}) :
        \E call \in {decrypt(encryptedBase64, masterKey, salt, randomSuffix)} :
            /\ dec' = [called |-> TRUE, device |-> "api",
                       encryptedBase64 |-> encryptedBase64, tamper |-> "api",
                       masterKey |-> masterKey, salt |-> salt,
                       result |-> call.result, caught |-> call.caught,
                       key |-> call.key]
    /\ UNCHANGED <<keyVars, legacyVars>>
    /\ UNCHANGED restVars
    /\ UNCHANGED <<configVars, deviceVars, gcm, usedRandom, enc, again, dagain,
                   pageVars>>

\* The deployments the calls run in: with or without crypto.subtle, with or
\* without a deployment salt, the security block of the configuration file.
ApiInit ==
    /\ cap \in Caps
    /\ VALINE_CRYPTO_SALT \in ConfigSalts
    /\ VALINE_CRYPTO_KEY = <<107, 49>>
    /\ pbkdf2Iterations = DEFAULT_ITERATIONS
    /\ saltLength = DEFAULT_SALT_LENGTH
    /\ NothingRun

ApiNext ==
    \/ ApiEncrypt
    \/ ApiDecrypt

ApiSpec == ApiInit /\ [][ApiNext]_vars

----------------------------------------------------------------------------
(* The first module: window.ValineEncryption.                               *)

\* new Uint8Array(12) and new Uint8Array(16) of encryptComment, and the
\* iterations of deriveKey.
COMMENT_IV_LENGTH == 12

COMMENT_SALT_LENGTH == 16

DERIVE_ITERATIONS == 100000

bufferToBase64(buffer) == btoa(buffer).v

base64ToBuffer(base64) == atob(base64)

\* deriveKey with a key that does not depend on the salt.
deriveKeyNoSalt(password, salt) ==
    IF cap # "full" THEN Throw
    ELSE Ok([pw |-> TextEncode(password), salt |-> <<>>,
             it |-> DERIVE_ITERATIONS])

\* deriveKey(password, salt), for the salt bytes its callers pass.
deriveKey(password, salt) ==
    IF cap # "full" THEN Throw
    ELSE Ok([pw |-> TextEncode(password), salt |-> salt,
             it |-> DERIVE_ITERATIONS])

\* encryptComment(comment, password), given the random values rnd = [iv,
\* salt, out] the call draws: the record returned (or the rejection), the
\* table entry AES-GCM adds and the random arrays consumed.
encryptComment(comment, password, rnd) ==
    LET key == deriveKey(password, rnd.salt)
    IN  IF ~key.ok
        THEN [result |-> Throw, entry |-> {}, drawn |-> {rnd.iv, rnd.salt}]
        ELSE [result |-> Ok([encryptedData |-> bufferToBase64(rnd.out),
                             iv |-> bufferToBase64(rnd.iv),
                             salt |-> bufferToBase64(rnd.salt)]),
              entry |-> {[key |-> key.v, iv |-> rnd.iv,
                          pt |-> TextEncode(comment), out |-> rnd.out]},
              drawn |-> {rnd.iv, rnd.salt}]

\* decryptComment(encryptedComment, password): the text, or null.
decryptComment(encryptedComment, password) ==
    LET iv == base64ToBuffer(encryptedComment.iv)
        salt == base64ToBuffer(encryptedComment.salt)
        encryptedData == base64ToBuffer(encryptedComment.encryptedData)
        key == deriveKey(password, salt.v)
        decryptedContent == AesGcmDecrypt(key.v, iv.v, encryptedData.v)
    IN  IF ~iv.ok \/ ~salt.ok \/ ~encryptedData.ok THEN Null
        ELSE IF ~key.ok \/ ~decryptedContent.ok THEN Null
        ELSE Ok(TextDecode(decryptedContent.v))

\* Passwords: "k1", "k2", and the two lone surrogates U+D800 and U+DC00.
Passwords == {<<107, 49>>, <<107, 50>>, <<55296>>, <<56320>>}

\* The fields of the record stored with a comment.
Fields == {"encryptedData", "iv", "salt"}

\* What a stored field may have become when it is read back: itself; its
\* first byte changed; cut short by four characters; followed by "!", which
\* is no base64; followed by a space.
AlterKinds == {"none", "flip", "cut", "junk", "space"}

Alter(base64, kind) ==
    LET bytes == atob(base64).v
    IN  IF kind = "flip"
        THEN bufferToBase64([bytes EXCEPT ![1] = Xor(bytes[1], 1)])
        ELSE IF kind = "cut" THEN DropLast(base64, 4)
        ELSE IF kind = "junk" THEN base64 \o <<33>>
        ELSE IF kind = "space" THEN base64 \o <<32>>
        ELSE base64

\* await ValineEncryption.encrypt(comment, password): the call under study.
EncryptComment ==
    /\ ~ecomment.called
    /\ \E comment \in Texts, password \in Passwords :
        \E rnd \in [iv : getRandomValues(COMMENT_IV_LENGTH),
                    salt : getRandomValues(COMMENT_SALT_LENGTH),
                    out : CipherBytes(Len(TextEncode(comment)))] :
        \E call \in {encryptComment(comment, password, rnd)} :
            /\ \A e \in call.entry : AesGcmMayProduce(e.key, e.iv, e.pt, e.out)
            /\ ecomment' = [called |-> TRUE, comment |-> comment,
                            password |-> password, result |-> call.result]
            /\ gcm' = gcm \cup call.entry
            /\ usedRandom' = usedRandom \cup call.drawn
    /\ UNCHANGED restVars
    /\ UNCHANGED <<configVars, deviceVars, enc, again, dec, dagain, pageVars,
                   keyVars, dcomment>>

\* await ValineEncryption.decrypt(encryptedComment, password) for the record
\* of the call under study as the comment store hands it back.
DecryptComment ==
    /\ ecomment.called
    /\ ecomment.result.ok
    /\ ~dcomment.called
    /\ \E field \in Fields, kind \in AlterKinds, password \in Passwords :
        \E encryptedComment \in
               {[ecomment.result.v EXCEPT ![field] = Alter(@, kind)]} :
            dcomment' = [called |-> TRUE, field |-> field, kind |-> kind,
                         encryptedComment |-> encryptedComment,
                         password |-> password,
                         result |-> decryptComment(encryptedComment, password)]
    /\ UNCHANGED restVars
    /\ UNCHANGED <<configVars, deviceVars, codecVars, pageVars, keyVars,
                   ecomment>>

\* Any runtime, the configuration of the repository.
CommentInit ==
    /\ cap \in Caps
    /\ VALINE_CRYPTO_SALT = <<>>
    /\ VALINE_CRYPTO_KEY = <<107, 49>>
    /\ pbkdf2Iterations = DEFAULT_ITERATIONS
    /\ saltLength = DEFAULT_SALT_LENGTH
    /\ NothingRun

CommentNext ==
    \/ EncryptComment
    \/ DecryptComment

CommentSpec == CommentInit /\ [][CommentNext]_vars

----------------------------------------------------------------------------
(* StorageManager: the stored key.                                          *)

\* The item StorageManager.saveKey(key, remember) leaves, given the item
\* there was: none when remember is false, the item there was when btoa
\* throws.
saveKey(item, key, remember) ==
    LET obfuscated == btoa(Reverse(key))
    IN  IF ~remember THEN NoItem
        ELSE IF ~obfuscated.ok THEN item
        ELSE [set |-> TRUE, v |-> obfuscated.v]

\* StorageManager.getKey(), given the item: the key, or null.
getKey(item) ==
    LET decoded == atob(item.v)
    IN  IF ~item.set \/ item.v = <<>> THEN Null
        ELSE IF ~decoded.ok THEN Null
        ELSE Ok(Reverse(decoded.v))

\* Key strings: "", "k1", "k2", " k1 ", "Passw0rd", "\u00FF", "k\u20AC" and
\* the lone surrogate U+D800.
KeyStrings ==
    {<<>>, <<107, 49>>, <<107, 50>>, <<32, 107, 49, 32>>,
     <<80, 97, 115, 115, 119, 48, 114, 100>>, <<255>>, <<107, 8364>>,
     <<55296>>}

\* ValineCryptoUtils.StorageManager.saveKey(key, remember)
SaveKey ==
    /\ \E key \in KeyStrings, remember \in BOOLEAN :
          /\ keyItem' = saveKey(keyItem, key, remember)
          /\ keyCall' = [called |-> TRUE, op |-> "saveKey", key |-> key,
                         remember |-> remember, before |-> keyItem,
                         allowKeyStorage |-> allowKeyStorage]
    /\ UNCHANGED restVars
    /\ UNCHANGED <<configVars, deviceVars, codecVars, pageVars, legacyVars,
                   allowKeyStorage>>

\* ValineCryptoUtils.StorageManager.clearKey()
ClearKey ==
    /\ keyItem' = NoItem
    /\ keyCall' = [called |-> TRUE, op |-> "clearKey", key |-> <<>>,
                   remember |-> FALSE, before |-> keyItem,
                   allowKeyStorage |-> allowKeyStorage]
    /\ UNCHANGED restVars
    /\ UNCHANGED <<configVars, deviceVars, codecVars, pageVars, legacyVars,
                   allowKeyStorage>>

StorageNext ==
    \/ SaveKey
    \/ ClearKey

StorageSpec == ConfigInit /\ [][StorageNext]_vars

----------------------------------------------------------------------------
(* The comment list of the page open on the reader's device.                *)

\* How many comments Valine renders into the page.
MaxComments == 2

Reader == "reader"

\* s.includes(p)
Includes(s, p) ==
    \E k \in 0..(Len(s) - Len(p)) : SubSeq(s, k + 1, k + Len(p)) = p

\* The payload of "hi" under the secret "k1" and a salt of the reader's
\* device, as fallbackEncrypt makes it without a deployment salt.
StoredPayload ==
    fallbackEncrypt(<<104, 105>>, <<107, 49>>,
                    generateSalt(Fill(GENERATE_SALT_LENGTH, RandomFill(1))),
                    <<>>).v

\* The texts of the comments Valine renders: "hi"; an encrypted comment; the
\* same between line feeds; the same quoted after "> "; the marker followed
\* by "!!", which is no base64.
CommentTexts ==
    {<<104, 105>>,
     ENCRYPTION_MARKER \o StoredPayload,
     <<10>> \o ENCRYPTION_MARKER \o StoredPayload \o <<10>>,
     <<62, 32>> \o ENCRYPTION_MARKER \o StoredPayload,
     ENCRYPTION_MARKER \o <<33, 33>>}

\* The attribute data-encrypted-content when the element has none.
NoAttribute == [set |-> FALSE, v |-> <<>>]

\* A .vcontent element as Valine renders it; rendered keeps the text it was
\* rendered with, classified and handled count the runs of the forEach body
\* of processComments and the calls of handleEncryptedComment for it.
Rendered(text) ==
    [rendered |-> text, textContent |-> text, processed |-> FALSE,
     encryptedContent |-> NoAttribute, decrypted |-> FALSE, pending |-> FALSE,
     classified |-> 0, handled |-> 0]

\* Valine renders one more comment.
Render ==
    /\ Len(comments) < MaxComments
    /\ \E text \in CommentTexts : comments' = Append(comments, Rendered(text))
    /\ UNCHANGED <<keyVars, legacyVars>>
    /\ UNCHANGED restVars
    /\ UNCHANGED <<configVars, deviceVars, codecVars, decryptCalls,
                   globalUnlockButton>>

\* The textContent of the element UIManager.createEncryptedDisplay builds:
\* the badge, the message and the unlock button.
EncryptedDisplayText ==
    <<32, 31169, 23494, 35780, 35770, 27492, 35780, 35770, 24050, 21152, 23494,
      65292, 38656, 35201, 23494, 38053, 25165, 33021, 26597, 30475, 20869,
      23481, 32, 35299, 38145, 26597, 30475>>

\* ValineCrypto.showEncryptedDisplay(commentElement)
showEncryptedDisplay(commentElement) ==
    [commentElement EXCEPT !.textContent = EncryptedDisplayText,
                           !.pending = FALSE]

\* ValineCrypto.handleEncryptedComment(commentElement, text) with the master
\* key of the page: the element after the call; pending when the call has
\* started an attemptDecryption.
handleEncryptedComment(commentElement, text, masterKey) ==
    LET encryptedData == Substring(text, Len(ENCRYPTION_MARKER))
        stored == [commentElement EXCEPT
                     !.encryptedContent = [set |-> TRUE, v |-> encryptedData],
                     !.handled = @ + 1]
    IN  IF masterKey # <<>> THEN [stored EXCEPT !.pending = TRUE]
        ELSE showEncryptedDisplay(stored)

\* processComment with includes in the place of startsWith.
processCommentIncludes(comment, masterKey) ==
    LET marked == [comment EXCEPT !.processed = TRUE, !.classified = @ + 1]
        text == Trim(comment.textContent)
    IN  IF Includes(text, ENCRYPTION_MARKER)
        THEN handleEncryptedComment(marked, text, masterKey)
        ELSE marked

\* The body of the forEach of processComments, for one element.
processComment(comment, masterKey) ==
    LET marked == [comment EXCEPT !.processed = TRUE, !.classified = @ + 1]
        text == Trim(comment.textContent)
    IN  IF StartsWith(text, ENCRYPTION_MARKER)
        THEN handleEncryptedComment(marked, text, masterKey)
        ELSE marked

\* addGlobalUnlockButton returning early only when two buttons are there.
addGlobalUnlockButtonTwice(elements) ==
    IF globalUnlockButton > 1 THEN globalUnlockButton
    ELSE IF \A i \in 1..Len(elements) : ~elements[i].encryptedContent.set
    THEN globalUnlockButton
    ELSE globalUnlockButton + 1

\* ValineCrypto.addGlobalUnlockButton(container), the container holding the
\* given elements: how many global unlock buttons the page has after it.
addGlobalUnlockButton(elements) ==
    IF globalUnlockButton > 0 THEN globalUnlockButton
    ELSE IF \A i \in 1..Len(elements) : ~elements[i].encryptedContent.set
    THEN globalUnlockButton
    ELSE globalUnlockButton + 1

\* processCommentsBody over every .vcontent, processed or not.
processCommentsEvery ==
    /\ init(Reader)
    /\ LET masterKey == valineCrypto'[Reader].masterKey
           after == [i \in 1..Len(comments) |->
                        processComment(comments[i], masterKey)]
       IN  /\ comments' = after
           /\ decryptCalls' = decryptCalls \cup
                  {i \in 1..Len(comments) : after[i].pending /\ ~comments[i].pending}
           /\ globalUnlockButton' = addGlobalUnlockButton(after)

\* What ValineCrypto.processComments(container) does in the reader's page.
processCommentsBody ==
    /\ init(Reader)
    /\ LET masterKey == valineCrypto'[Reader].masterKey
           after == [i \in 1..Len(comments) |->
                        IF comments[i].processed THEN comments[i]
                        ELSE processComment(comments[i], masterKey)]
       IN  /\ comments' = after
           /\ decryptCalls' = decryptCalls \cup
                  {i \in 1..Len(comments) : after[i].pending /\ ~comments[i].pending}
           \* addGlobalUnlockButton(container)
           /\ globalUnlockButton' = addGlobalUnlockButton(after)

\* ValineCrypto.processComments(container) in the reader's page.
processComments ==
    /\ processCommentsBody
    /\ UNCHANGED <<keyVars, legacyVars>>
    /\ UNCHANGED restVars
    /\ UNCHANGED <<configVars, gcm, enc, again, dec, dagain>>

\* The rest of ValineCrypto.attemptDecryption(commentElement, encryptedData)
\* for element i, once the decrypt call it awaits has settled.
attemptDecryptionBody(i) ==
    /\ i \in 1..Len(comments)
    /\ comments[i].pending
    /\ \E randomSuffix \in
               (IF VALINE_CRYPTO_SALT # <<>> THEN RandomSuffixes ELSE {<<>>}) :
        \E call \in {decrypt(comments[i].encryptedContent.v,
                             valineCrypto[Reader].masterKey,
                             valineCrypto[Reader].salt, randomSuffix)} :
            comments' = [comments EXCEPT ![i] =
                IF call.result.ok /\ call.result.v # <<>>
                THEN [@ EXCEPT !.textContent = call.result.v,
                               !.decrypted = TRUE, !.pending = FALSE]
                ELSE showEncryptedDisplay(@)]

\* The rest of an attemptDecryption call for element i.
attemptDecryption(i) ==
    /\ attemptDecryptionBody(i)
    /\ UNCHANGED <<keyVars, legacyVars>>
    /\ UNCHANGED restVars
    /\ UNCHANGED <<configVars, deviceVars, codecVars, decryptCalls,
                   globalUnlockButton>>

\* The reader's page of the repository's deployment (no deployment salt, the
\* iteration count of the configuration file), with or without a master key.
PageInit ==
    /\ cap \in Caps
    /\ VALINE_CRYPTO_SALT = <<>>
    /\ VALINE_CRYPTO_KEY \in {<<>>, <<107, 49>>}
    /\ pbkdf2Iterations = DEFAULT_ITERATIONS
    /\ saltLength = DEFAULT_SALT_LENGTH
    /\ NothingRun

PageNext ==
    \/ Render
    \/ processComments
    \/ \E i \in 1..MaxComments : attemptDecryption(i)

PageSpec == PageInit /\ [][PageNext]_vars

----------------------------------------------------------------------------
(* The codec's contract.                                                    *)

\* The payload of the call under study is of the fallback family.
IsFallbackPayload(payload) == StartsWith(atob(payload).v, FALLBACK_MARKER)

\* The decrypt call under study was given the stored payload unchanged, the
\* secret of the encrypt call and the salt of the encrypt call.
SameArguments ==
    /\ enc.called
    /\ dec.called
    /\ dec.tamper = "none"
    /\ dec.masterKey = enc.masterKey
    /\ dec.salt = enc.salt

\* C1: round trip.  For all plaintexts P, secrets S and salts,
\* decrypt(encrypt(P, S, salt), S, salt) returns exactly P.
C1_RoundTrip ==
    SameArguments => (dec.result.ok /\ dec.result.v = enc.text)

\* C2: wrong secret.  Decoding a primary-family payload made with S1 using
\* S2 # S1 returns the failure result, never a text string.
C2_WrongSecretFails ==
    (/\ enc.called
     /\ dec.called
     /\ ~IsFallbackPayload(enc.result.v)
     /\ dec.tamper = "none"
     /\ dec.masterKey # enc.masterKey) => ~dec.result.ok

\* C3: tamper detection.  After a change of one byte of the ciphertext or
\* tag region of a primary-family payload, decode returns the failure
\* result, never a text string.
C3_TamperDetected ==
    (/\ enc.called
     /\ dec.called
     /\ ~IsFallbackPayload(enc.result.v)
     /\ dec.tamper # "none") => ~dec.result.ok

\* C4: any client holding the secret can decode.  In a deployment without a
\* deployment salt, a client on another device that decodes the stored
\* payload with the secret it was made with gets the text back: the result
\* does not depend on the salt the encoding device keeps in its storage.
C4_AnyClientDecodes ==
    (/\ VALINE_CRYPTO_SALT = <<>>
     /\ enc.called
     /\ dec.called
     /\ dec.tamper = "none"
     /\ dec.masterKey = enc.masterKey
     /\ dec.device # enc.device) => (dec.result.ok /\ dec.result.v = enc.text)

\* C5: with a deployment salt configured, decrypt derives its key from the
\* salt string encrypt derived its key from, so both obtain the same key.
C5_SameDerivedKey ==
    (/\ VALINE_CRYPTO_SALT # <<>>
     /\ SameArguments
     /\ enc.key.ok) => (dec.key.ok /\ dec.key.v = enc.key.v)

\* C6: encode emits a fallback-family payload only when the primary cipher
\* is structurally unavailable in the runtime.
C6_FallbackOnlyWhenUnavailable ==
    (enc.called /\ enc.result.ok /\ IsFallbackPayload(enc.result.v))
        => cap # "full"

\* C7: fallback activation.  When the primary cipher is unavailable, encode
\* produces a payload with the fallback marker, and decode of that payload
\* with the same secret and salt returns the original text, with or without
\* a deployment salt.
C7_FallbackRoundTrip ==
    /\ (enc.called /\ cap # "full")
          => (enc.result.ok /\ IsFallbackPayload(enc.result.v))
    /\ (SameArguments /\ cap # "full")
          => (dec.result.ok /\ dec.result.v = enc.text)

\* C8: non-determinism.  Two calls to encode with identical plaintext,
\* secret and salt produce different payload strings, in both families.
C8_EncodeNonDeterministic ==
    (enc.called /\ again.called) => again.result # enc.result

\* C9: decoding is idempotent-safe.  Two decode calls with the same
\* (encoded, secret, salt) in the same configuration return the same result.
C9_DecodeIdempotent ==
    (dec.called /\ dagain.called) => dagain.result = dec.result

----------------------------------------------------------------------------
(* The classification of rendered comments.                                 *)

\* Element i was left alone: never passed to decrypt, without the attribute
\* data-encrypted-content, its text as rendered.
LeftAlone(i) ==
    /\ i \notin decryptCalls
    /\ ~comments[i].encryptedContent.set
    /\ comments[i].textContent = comments[i].rendered

\* C10 as stated: a rendered comment whose text does not start with the
\* encryption marker is never passed to decrypt, never gets the attribute
\* data-encrypted-content, and its displayed text is left unchanged.
C10_UnmarkedLeftAlone ==
    \A i \in 1..Len(comments) :
        ~StartsWith(comments[i].rendered, ENCRYPTION_MARKER) => LeftAlone(i)

\* C10 as amended: a rendered comment whose text, with the white space
\* around it trimmed, does not start with the encryption marker is never
\* passed to decrypt, never gets the attribute data-encrypted-content, and
\* its displayed text is left unchanged.
C10_TrimmedUnmarkedLeftAlone ==
    \A i \in 1..Len(comments) :
        ~StartsWith(Trim(comments[i].rendered), ENCRYPTION_MARKER)
            => LeftAlone(i)

\* processComments has gone over a comment that holds the marker after
\* other text and over an encrypted comment, and the latter is decrypted.
C10_Witness ==
    \E i, j \in 1..Len(comments) :
        /\ comments[i].processed
        /\ Includes(comments[i].rendered, ENCRYPTION_MARKER)
        /\ ~StartsWith(Trim(comments[i].rendered), ENCRYPTION_MARKER)
        /\ comments[j].processed
        /\ comments[j].decrypted

----------------------------------------------------------------------------
(* The key input modal.                                                     *)

\* The characters of the class /[!@#$%^&*(),.?":{}|<>]/.
SpecialChars ==
    {33, 64, 35, 36, 37, 94, 38, 42, 40, 41, 44, 46, 63, 34, 58, 123, 125,
     124, 60, 62}

\* The character classes /[A-Z]/, /[a-z]/, /\d/ and the special characters.
KeyClasses == {65..90, 97..122, 48..57, SpecialChars}

\* validateKeyStrength with "strength < 3" in the place of "strength < 2".
validateKeyStrengthThree(key) ==
    LET has(class) == \E k \in 1..Len(key) : key[k] \in class
        strength == Cardinality({class \in KeyClasses : has(class)})
    IN  IF Len(key) < 8 THEN [valid |-> FALSE, message |-> "length"]
        ELSE IF strength < 3 THEN [valid |-> FALSE, message |-> "strength"]
        ELSE [valid |-> TRUE, message |-> "none"]

\* SecurityUtils.validateKeyStrength(key): valid, and which of the two
\* messages the result carries ("none" when it carries strength instead).
validateKeyStrength(key) ==
    LET has(class) == \E k \in 1..Len(key) : key[k] \in class
        strength == Cardinality({class \in KeyClasses : has(class)})
    IN  IF Len(key) < 8 THEN [valid |-> FALSE, message |-> "length"]
        ELSE IF strength < 2 THEN [valid |-> FALSE, message |-> "strength"]
        ELSE [valid |-> TRUE, message |-> "none"]

\* ValineCrypto.decryptSingleComment(commentElement, key), given the value
\* of Math.random a fallbackDecrypt call would draw: whether it returned, and
\* the element after the call.
decryptSingleComment(commentElement, key, randomSuffix) ==
    LET decrypted == decrypt(commentElement.encryptedContent.v, key,
                             valineCrypto[Reader].salt, randomSuffix).result
    IN  IF ~commentElement.encryptedContent.set
           \/ commentElement.encryptedContent.v = <<>>
        THEN [ok |-> FALSE, element |-> commentElement]
        ELSE IF ~decrypted.ok \/ decrypted.v = <<>>
        THEN [ok |-> FALSE, element |-> commentElement]
        ELSE [ok |-> TRUE,
              element |-> [commentElement EXCEPT !.textContent = decrypted.v,
                                                 !.decrypted = TRUE]]

\* What the reader types in the key input: "", " k1 ", "Passw0rd", "k\u20AC".
SubmitInputs ==
    {<<>>, <<32, 107, 49, 32>>, <<80, 97, 115, 115, 119, 48, 114, 100>>,
     <<107, 8364>>}

\* ValineCrypto.handleKeySubmit(input, rememberCheckbox, targetComment) in
\* the reader's page, for the modal an unlock button has opened: the button
\* of element target, or the global button when target is 0.  confirmed is
\* the reader's answer to the confirm dialog for a weak key.
handleKeySubmit(input, remember, confirmed, target) ==
    LET key == Trim(input)
        targets == IF target = 0
                   THEN {i \in 1..Len(comments) : comments[i].encryptedContent.set}
                   ELSE {target}
    IN  /\ IF target = 0 THEN globalUnlockButton > 0
           ELSE /\ target \in 1..Len(comments)
                /\ comments[target].encryptedContent.set
                /\ ~comments[target].pending
                /\ ~comments[target].decrypted
        /\ IF key = <<>> \/ (~validateKeyStrength(key).valid /\ ~confirmed)
           THEN UNCHANGED <<keyItem, keyCall, comments>>
           ELSE /\ keyItem' = saveKey(keyItem, key, remember)
                /\ \E randomSuffix \in
                       (IF VALINE_CRYPTO_SALT # <<>> THEN RandomSuffixes
                        ELSE {<<>>}) :
                   \E after \in {[i \in 1..Len(comments) |->
                         IF i \in targets
                         THEN decryptSingleComment(comments[i], key,
                                                   randomSuffix).element
                         ELSE comments[i]]} :
                     /\ comments' = after
                     /\ keyCall' = [called |-> TRUE, op |-> "handleKeySubmit",
                                    key |-> key, remember |-> remember,
                                    before |-> keyItem,
                                    allowKeyStorage |-> allowKeyStorage,
                                    changed |->
                                      {i \in 1..Len(comments) :
                                         \/ after[i].textContent
                                                # comments[i].textContent
                                         \/ after[i].decrypted
                                                # comments[i].decrypted}]
        /\ UNCHANGED restVars
        /\ UNCHANGED <<configVars, deviceVars, codecVars, legacyVars,
                       decryptCalls, globalUnlockButton, allowKeyStorage>>

\* window.applyValineCryptoPreset(presetName)
applyValineCryptoPreset(presetName) ==
    /\ allowKeyStorage' = PresetAllowKeyStorage(presetName)
    /\ settings' = PresetSettings(presetName, settings)
    /\ resetCall' = NoCall
    /\ UNCHANGED <<adviceVars, formVars, lifeVars, hookVars>>
    /\ UNCHANGED <<configVars, deviceVars, codecVars, pageVars, legacyVars,
                   keyItem, keyCall>>

\* The page of a reader who has no master key, in the repository's
\* deployment.
KeyInit ==
    /\ cap = "full"
    /\ VALINE_CRYPTO_SALT = <<>>
    /\ VALINE_CRYPTO_KEY = <<>>
    /\ pbkdf2Iterations = DEFAULT_ITERATIONS
    /\ saltLength = DEFAULT_SALT_LENGTH
    /\ NothingRun

\* The presets applied in the reader's page: one that disallows key storage
\* and one that allows it.
KeyPresets == {"blogger", "guest"}

KeyNext ==
    \/ Render
    \/ processComments
    \/ \E input \in SubmitInputs, remember \in BOOLEAN, confirmed \in BOOLEAN,
          target \in 0..MaxComments :
           handleKeySubmit(input, remember, confirmed, target)
    \/ \E presetName \in KeyPresets : applyValineCryptoPreset(presetName)

KeySpec == KeyInit /\ [][KeyNext]_vars

----------------------------------------------------------------------------
(* The submit button of Valine's form: enhanceValineForm, the click         *)
(* listener bindSubmitHandler adds, and Valine's own handler.               *)

\* How many click events the submit button gets.
MaxClicks == 2

\* What the user types into the empty .veditor: "hi", a space.
TypedTexts == {<<104, 105>>, <<32>>}

\* ValineCrypto.bindSubmitHandler(container, checkbox): the form after it.
bindSubmitHandler(f) ==
    IF f.cryptoEnhanced THEN f
    ELSE [f EXCEPT !.cryptoEnhanced = TRUE, !.listeners = @ + 1]

\* ValineCrypto.enhanceValineForm(container) in the reader's page, whose
\* container holds Valine's form.
enhanceValineFormBody ==
    /\ init(Reader)
    /\ form' = IF valineCrypto'[Reader].masterKey = <<>> \/ form.options > 0
               THEN form
               ELSE bindSubmitHandler([form EXCEPT !.options = @ + 1])

\* A call of ValineCrypto.enhanceValineForm(container).
enhanceValineForm ==
    /\ enhanceValineFormBody
    /\ UNCHANGED <<configVars, gcm, enc, again, dec, dagain, pageVars, keyVars,
                   legacyVars, settingsVars, adviceVars, lifeVars, hookVars>>
    /\ UNCHANGED <<browser, textarea, checkbox, clicks, running, clickTimers,
                   processTimers, widgetSubmits>>

\* The user types into .veditor.
Type ==
    /\ \E text \in TypedTexts : textarea # text /\ textarea' = text
    /\ UNCHANGED <<configVars, deviceVars, codecVars, pageVars, keyVars,
                   legacyVars, settingsVars, adviceVars, lifeVars, hookVars>>
    /\ UNCHANGED <<browser, form, checkbox, clicks, running, clickTimers,
                   processTimers, widgetSubmits>>

\* The user clicks the private-comment checkbox.
Toggle ==
    /\ form.options > 0
    /\ checkbox' = ~checkbox
    /\ UNCHANGED <<configVars, deviceVars, codecVars, pageVars, keyVars,
                   legacyVars, settingsVars, adviceVars, lifeVars, hookVars>>
    /\ UNCHANGED <<browser, form, textarea, clicks, running, clickTimers,
                   processTimers, widgetSubmits>>

\* A click event on .vsubmit, from the user (origin 0) or from the
\* submitBtn.click() of the timer that the listener's run for the click
\* origin has set: the listeners that run, up to the first await of the
\* listener bindSubmitHandler has added.  Valine has registered its handler
\* before enhanceValineForm finds the button.
Dispatch(origin) ==
    LET id == Len(clicks) + 1
        intercepts == form.listeners > 0 /\ checkbox
        widgetFirst == browser.widgetCapture
                           \/ browser.atTarget = "registration"
        \* e.stopPropagation() keeps the event from the listeners of the
        \* later phase only
        widgetRuns == widgetFirst \/ ~intercepts
        content == Trim(textarea)
    IN  /\ clicks' = Append(clicks, [origin |-> origin, checked |-> checkbox,
                                     value |-> textarea])
        /\ widgetSubmits' = IF widgetRuns
                            THEN Append(widgetSubmits,
                                        [click |-> id, text |-> textarea])
                            ELSE widgetSubmits
        /\ running' = IF intercepts /\ content # <<>>
                      THEN running \cup {[click |-> id, content |-> content]}
                      ELSE running

\* The user clicks .vsubmit.
Click ==
    /\ Len(clicks) < MaxClicks
    /\ Dispatch(0)
    /\ UNCHANGED <<configVars, deviceVars, codecVars, pageVars, keyVars,
                   legacyVars, settingsVars, adviceVars, lifeVars, hookVars>>
    /\ UNCHANGED <<browser, form, textarea, checkbox, clickTimers,
                   processTimers>>

\* The rest of a run of the click listener, once the encrypt call it awaits
\* has settled.
EncryptSettles ==
    /\ \E run \in running :
        \E rnd \in Draws(run.content) :
        \E call \in {encrypt(run.content, valineCrypto[Reader].masterKey,
                             valineCrypto[Reader].salt, rnd)} :
            /\ \A e \in call.entry : AesGcmMayProduce(e.key, e.iv, e.pt, e.out)
            /\ gcm' = gcm \cup call.entry
            /\ usedRandom' = usedRandom \cup call.drawn
            /\ running' = running \ {run}
            /\ IF call.result.ok
               THEN /\ textarea' = ENCRYPTION_MARKER \o call.result.v
                    /\ checkbox' = FALSE
                    /\ clickTimers' = clickTimers \cup {run.click}
               ELSE UNCHANGED <<textarea, checkbox, clickTimers>>
    /\ UNCHANGED <<configVars, deviceVars, enc, again, dec, dagain, pageVars,
                   keyVars, legacyVars, settingsVars, adviceVars, lifeVars, hookVars>>
    /\ UNCHANGED <<browser, form, clicks, processTimers, widgetSubmits>>

\* A 100 ms timer of the click listener fires.
ClickTimerFires ==
    /\ Len(clicks) < MaxClicks
    /\ \E timer \in clickTimers :
          /\ clickTimers' = clickTimers \ {timer}
          /\ Dispatch(timer)
    /\ processTimers' = processTimers + 1
    /\ UNCHANGED <<configVars, deviceVars, codecVars, pageVars, keyVars,
                   legacyVars, settingsVars, adviceVars, lifeVars, hookVars>>
    /\ UNCHANGED <<browser, form, textarea, checkbox>>

\* A 2000 ms timer of the click listener fires.
ProcessTimerFires ==
    /\ processTimers > 0
    /\ processTimers' = processTimers - 1
    /\ processCommentsBody
    /\ UNCHANGED <<configVars, gcm, enc, again, dec, dagain, keyVars,
                   legacyVars, settingsVars, adviceVars, lifeVars, hookVars>>
    /\ UNCHANGED <<browser, form, textarea, checkbox, clicks, running,
                   clickTimers, widgetSubmits>>

\* The reader's page of a deployment with the master key "k1", in any
\* browser.
SubmitInit ==
    /\ cap \in Caps
    /\ VALINE_CRYPTO_SALT = <<>>
    /\ VALINE_CRYPTO_KEY = <<107, 49>>
    /\ pbkdf2Iterations = DEFAULT_ITERATIONS
    /\ saltLength = DEFAULT_SALT_LENGTH
    /\ \E b \in Browsers : NothingRunIn(b)

SubmitNext ==
    \/ enhanceValineForm
    \/ Type
    \/ Toggle
    \/ Click
    \/ EncryptSettles
    \/ ClickTimerFires
    \/ ProcessTimerFires

SubmitSpec == SubmitInit /\ [][SubmitNext]_vars

----------------------------------------------------------------------------
(* InitManager and the MutationObserver.                                    *)

maxAttempts == 10

\* ValineCrypto.setupObserver(container), container being the .v element.
setupObserverBody ==
    observer' = IF observer.initialized THEN observer
                ELSE [initialized |-> TRUE, installed |-> observer.installed + 1]

\* Whether the step has added nodes under the container.
NodesAdded ==
    \/ form'.options > form.options
    \/ globalUnlockButton' > globalUnlockButton
    \/ Len(comments') > Len(comments)
    \/ \E i \in 1..Len(comments) :
           comments'[i].textContent # comments[i].textContent

\* Observed for observers that get a record for every step.
ObservedAnyStep == mutated' = (mutated \/ observer.installed > 0)

\* The mutation records the step queues for the observers of the container
\* (childList, subtree), which observe from the end of setupObserver on.
Observed == mutated' = (mutated \/ (observer.installed > 0 /\ NodesAdded))

\* What leaves the page as it is.
PageLeft ==
    UNCHANGED <<localStorage, valineCrypto, usedRandom, comments, decryptCalls,
                globalUnlockButton, form, observer, mutated>>

\* initCrypto with "attemptCount > maxAttempts" as its guard.
initCryptoPastMax(retries) ==
    IF attemptCount > maxAttempts
    THEN /\ retryTimers' = retries
         /\ UNCHANGED <<attemptCount, initRuns>>
         /\ PageLeft
    ELSE /\ attemptCount' = attemptCount + 1
         /\ initRuns' = initRuns + 1
         /\ IF valineReady
            THEN /\ enhanceValineFormBody
                 /\ processCommentsBody
                 /\ setupObserverBody
                 /\ Observed
                 /\ retryTimers' = retries
            ELSE /\ retryTimers' = retries + 1
                 /\ PageLeft

\* InitManager.initCrypto(), retries being the retry timers pending when it
\* is called.
initCrypto(retries) ==
    IF attemptCount >= maxAttempts
    THEN /\ retryTimers' = retries
         /\ UNCHANGED <<attemptCount, initRuns>>
         /\ PageLeft
    ELSE /\ attemptCount' = attemptCount + 1
         /\ initRuns' = initRuns + 1
         /\ IF valineReady
            THEN /\ enhanceValineFormBody
                 /\ processCommentsBody
                 /\ setupObserverBody
                 /\ Observed
                 /\ retryTimers' = retries
            ELSE /\ retryTimers' = retries + 1
                 /\ PageLeft

\* What no step of InitManager changes.
InitLeft ==
    /\ UNCHANGED <<configVars, gcm, enc, again, dec, dagain, keyVars,
                   legacyVars, settingsVars, adviceVars, hookVars>>
    /\ UNCHANGED <<browser, textarea, checkbox, clicks, running, clickTimers,
                   processTimers, widgetSubmits, processTimeout>>

\* What no step of Valine, of a decryption or of the observer changes.
TriggersLeft ==
    UNCHANGED <<attemptCount, initRuns, retryTimers, eventTimers, readyState,
                listeners, valineReady>>

\* InitManager.start()
start ==
    /\ listeners = {}
    /\ initCrypto(retryTimers)
    /\ listeners' = (IF readyState = "loading" THEN {"DOMContentLoaded"}
                     ELSE {}) \cup {"load", "keydown"}
    /\ UNCHANGED <<eventTimers, readyState, valineReady>>
    /\ InitLeft

\* The document fires DOMContentLoaded.
DOMContentLoaded ==
    /\ readyState = "loading"
    /\ readyState' = "interactive"
    /\ eventTimers' = IF "DOMContentLoaded" \in listeners THEN eventTimers + 1
                      ELSE eventTimers
    /\ UNCHANGED <<attemptCount, initRuns, retryTimers, listeners, valineReady>>
    /\ PageLeft
    /\ InitLeft

\* The window fires load.
Load ==
    /\ readyState = "interactive"
    /\ readyState' = "complete"
    /\ eventTimers' = IF "load" \in listeners THEN eventTimers + 1
                      ELSE eventTimers
    /\ UNCHANGED <<attemptCount, initRuns, retryTimers, listeners, valineReady>>
    /\ PageLeft
    /\ InitLeft

\* The timer of the DOMContentLoaded or of the load listener fires.
EventTimerFires ==
    /\ eventTimers > 0
    /\ eventTimers' = eventTimers - 1
    /\ initCrypto(retryTimers)
    /\ UNCHANGED <<readyState, listeners, valineReady>>
    /\ InitLeft

\* A retry timer of initCrypto fires.
RetryTimerFires ==
    /\ retryTimers > 0
    /\ initCrypto(retryTimers - 1)
    /\ UNCHANGED <<eventTimers, readyState, listeners, valineReady>>
    /\ InitLeft

\* The user presses Ctrl+Shift+E.
KeyDown ==
    /\ "keydown" \in listeners
    /\ initCrypto(retryTimers)
    /\ UNCHANGED <<eventTimers, readyState, listeners, valineReady>>
    /\ InitLeft

\* Valine's script has loaded and its container is in the document.
ValineLoads ==
    /\ ~valineReady
    /\ valineReady' = TRUE
    /\ UNCHANGED <<attemptCount, initRuns, retryTimers, eventTimers, readyState,
                   listeners>>
    /\ PageLeft
    /\ InitLeft

\* The script is running: the document is loading or loaded, Valine is
\* there or not yet.
LoadInit ==
    /\ cap = "full"
    /\ VALINE_CRYPTO_SALT = <<>>
    /\ VALINE_CRYPTO_KEY = <<107, 49>>
    /\ pbkdf2Iterations = DEFAULT_ITERATIONS
    /\ saltLength = DEFAULT_SALT_LENGTH
    /\ \E state \in {"loading", "interactive", "complete"}, ready \in BOOLEAN :
          ScriptRunning(ModernBrowser, state, ready)

LoadNext ==
    \/ start
    \/ DOMContentLoaded
    \/ Load
    \/ EventTimerFires
    \/ RetryTimerFires
    \/ KeyDown
    \/ ValineLoads

LoadSpec == LoadInit /\ [][LoadNext]_vars

----------------------------------------------------------------------------
(* The page from the first ready initCrypto on: Valine renders comments,    *)
(* the observers' callback arms the debounce timer, the timer runs          *)
(* processComments.                                                         *)

\* How many attempts of initCrypto have failed, one retry timer after the
\* other, before Valine is there.
FailedAttempts == 7

\* The texts of the comments Valine renders: "hi" and an encrypted comment.
LifeTexts == {<<104, 105>>, ENCRYPTION_MARKER \o StoredPayload}

\* Valine renders one more comment into its container.
ValineRenders ==
    /\ valineReady
    /\ Len(comments) < MaxComments
    /\ \E text \in LifeTexts : comments' = Append(comments, Rendered(text))
    /\ UNCHANGED <<localStorage, valineCrypto, usedRandom, decryptCalls,
                   globalUnlockButton, form, observer>>
    /\ Observed
    /\ TriggersLeft
    /\ InitLeft

\* The rest of an attemptDecryption call for element i, in the observed
\* container.
Decrypted(i) ==
    /\ attemptDecryptionBody(i)
    /\ UNCHANGED <<localStorage, valineCrypto, usedRandom, decryptCalls,
                   globalUnlockButton, form, observer>>
    /\ Observed
    /\ TriggersLeft
    /\ InitLeft

\* The callback of the MutationObserver, for records with added nodes.
ObserverCallback ==
    /\ observer.installed > 0
    /\ mutated
    /\ mutated' = FALSE
    /\ processTimeout' = TRUE
    /\ UNCHANGED <<localStorage, valineCrypto, usedRandom, comments,
                   decryptCalls, globalUnlockButton, form, observer>>
    /\ TriggersLeft
    /\ UNCHANGED <<configVars, gcm, enc, again, dec, dagain, keyVars,
                   legacyVars, settingsVars, adviceVars, hookVars>>
    /\ UNCHANGED <<browser, textarea, checkbox, clicks, running, clickTimers,
                   processTimers, widgetSubmits>>

\* The timer this.processTimeout fires.
DebounceFires ==
    /\ processTimeout
    /\ processTimeout' = FALSE
    /\ processCommentsBody
    /\ UNCHANGED <<form, observer>>
    /\ Observed
    /\ TriggersLeft
    /\ UNCHANGED <<configVars, gcm, enc, again, dec, dagain, keyVars,
                   legacyVars, settingsVars, adviceVars, hookVars>>
    /\ UNCHANGED <<browser, textarea, checkbox, clicks, running, clickTimers,
                   processTimers, widgetSubmits>>

\* The page of a reader with or without the master key, where Valine is
\* slow: the document is still loading, initCrypto has failed FailedAttempts
\* times and its last retry timer is pending.
LifeInit ==
    /\ cap = "full"
    /\ VALINE_CRYPTO_SALT = <<>>
    /\ VALINE_CRYPTO_KEY \in {<<>>, <<107, 49>>}
    /\ pbkdf2Iterations = DEFAULT_ITERATIONS
    /\ saltLength = DEFAULT_SALT_LENGTH
    /\ Untouched(ModernBrowser)
    /\ attemptCount = FailedAttempts
    /\ initRuns = FailedAttempts
    /\ retryTimers = 1
    /\ eventTimers = 0
    /\ readyState = "loading"
    /\ listeners = {"DOMContentLoaded", "load", "keydown"}
    /\ valineReady = FALSE
    /\ observer = [initialized |-> FALSE, installed |-> 0]
    /\ processTimeout = FALSE
    /\ mutated = FALSE

LifeNext ==
    \/ DOMContentLoaded
    \/ Load
    \/ EventTimerFires
    \/ RetryTimerFires
    \/ KeyDown
    \/ ValineLoads
    \/ ValineRenders
    \/ \E i \in 1..MaxComments : Decrypted(i)
    \/ ObserverCallback
    \/ DebounceFires

LifeSpec == LifeInit /\ [][LifeNext]_vars

\* The timer this.processTimeout fires, seen on the timer alone: the steps
\* of LifeNext that disarm it are the DebounceFires steps.
ProcessTimeoutFires == processTimeout /\ processTimeout' = FALSE

\* The event loop delivers the mutation records to the observers' callback
\* and fires a timer that stays armed.
LifeFairSpec ==
    /\ LifeSpec
    /\ WF_vars(ObserverCallback)
    /\ WF_processTimeout(ProcessTimeoutFires)

----------------------------------------------------------------------------
(* The first module's hook on window.Valine.                                *)

\* How many times extendValine wraps the init of one constructor.
MaxExtend == 4

\* What reading window.Valine gives.
GetValine ==
    IF valineProperty.kind = "accessor" THEN originalValine
    ELSE valineProperty.value

\* extendValine(): the wraps of prototype.init after the call.
extendValine ==
    IF IsFunction(GetValine)
    THEN [prototypeInit EXCEPT ![GetValine] = @ + 1]
    ELSE prototypeInit

\* The setter of the hook, whose first statement assigns to the const
\* originalValine and throws a TypeError: whether it threw, originalValine
\* and the wraps after it.
HookSetter(newValine) ==
    [thrown |-> TRUE, originalValine |-> originalValine,
     prototypeInit |-> prototypeInit]

\* The end of the first module (lines 385-403), run in a page where
\* window.Valine is whatever the scripts before it have left.
RunModule ==
    /\ originalValine = "unset"
    /\ valineProperty.kind = "data"
    /\ IF IsFunction(GetValine)
       THEN /\ prototypeInit' = extendValine
            /\ originalValine' = "undeclared"
            /\ UNCHANGED valineProperty
       ELSE /\ originalValine' = GetValine
            /\ valineProperty' = [kind |-> "accessor", value |-> "undefined"]
            /\ UNCHANGED prototypeInit
    /\ UNCHANGED assignment
    /\ UNCHANGED <<configVars, deviceVars, codecVars, pageVars, keyVars,
                   legacyVars, settingsVars, adviceVars, formVars, lifeVars>>

\* A script runs window.Valine = newValine.
AssignValine ==
    /\ \E newValine \in ValineValues :
        IF valineProperty.kind = "accessor"
        THEN \E set \in {HookSetter(newValine)} :
               /\ originalValine' = set.originalValine
               /\ prototypeInit' = set.prototypeInit
               /\ assignment' = [called |-> TRUE, hooked |-> TRUE,
                                 newValine |-> newValine,
                                 thrown |-> set.thrown,
                                 readBack |-> set.originalValine,
                                 extended |->
                                     IsFunction(newValine)
                                     /\ set.prototypeInit[newValine]
                                            > prototypeInit[newValine]]
               /\ UNCHANGED valineProperty
        ELSE /\ valineProperty' = [kind |-> "data", value |-> newValine]
             /\ assignment' = [called |-> TRUE, hooked |-> FALSE,
                               newValine |-> newValine, thrown |-> FALSE,
                               readBack |-> newValine, extended |-> FALSE]
             /\ UNCHANGED <<originalValine, prototypeInit>>
    /\ UNCHANGED <<configVars, deviceVars, codecVars, pageVars, keyVars,
                   legacyVars, settingsVars, adviceVars, formVars, lifeVars>>

\* window.ValineEncryption.extend()
Extend ==
    /\ originalValine # "unset"
    /\ IsFunction(GetValine) => prototypeInit[GetValine] < MaxExtend
    /\ prototypeInit' = extendValine
    /\ UNCHANGED <<valineProperty, originalValine, assignment>>
    /\ UNCHANGED <<configVars, deviceVars, codecVars, pageVars, keyVars,
                   legacyVars, settingsVars, adviceVars, formVars, lifeVars>>

\* A page in which the first module has not run yet and no script has
\* defined window.Valine.
HookInit ==
    /\ cap = "full"
    /\ VALINE_CRYPTO_SALT = <<>>
    /\ VALINE_CRYPTO_KEY = <<107, 49>>
    /\ pbkdf2Iterations = DEFAULT_ITERATIONS
    /\ saltLength = DEFAULT_SALT_LENGTH
    /\ NothingLoaded

HookNext ==
    \/ RunModule
    \/ AssignValine
    \/ Extend

HookSpec == HookInit /\ [][HookNext]_vars

----------------------------------------------------------------------------
(* The key-strength advisory.                                               *)

\* What a passphrase may begin with: nothing, six or seven "a", seven "_".
PassphraseHeads == {<<>>, Fill(6, 97), Fill(7, 97), Fill(7, 95)}

\* The characters it may end with: "A", "a", "1", "!", "_" and "\u00E9".
PassphraseChars == {65, 97, 49, 33, 95, 233}

\* The passphrases tried: a head followed by at most two characters.
Passphrases ==
    {head \o tail : head \in PassphraseHeads,
                    tail \in {<<>>} \cup {<<c>> : c \in PassphraseChars}
                             \cup {<<c, e>> : c \in PassphraseChars,
                                              e \in PassphraseChars}}

\* ValineCryptoUtils.SecurityUtils.validateKeyStrength(key)
ValidateKeyStrength ==
    /\ \E key \in Passphrases :
          validation' = [called |-> TRUE, key |-> key,
                         result |-> validateKeyStrength(key)]
    /\ UNCHANGED <<configVars, deviceVars, codecVars, pageVars, keyVars,
                   legacyVars, settingsVars, formVars,
                   lifeVars, hookVars>>

AdviceNext == ValidateKeyStrength

AdviceSpec == ConfigInit /\ [][AdviceNext]_vars

----------------------------------------------------------------------------
(* The configuration functions.                                             *)

\* initConfig(), for the part of the configuration settings holds: enabled
\* becomes false when checkCompatibility finds no crypto.subtle, and nothing
\* else is assigned.
initConfig(current) ==
    IF cap # "full" THEN [current EXCEPT !.enabled = FALSE] ELSE current

\* window.resetValineCryptoConfig()
resetValineCryptoConfig ==
    /\ settings' = initConfig(settings)
    /\ VALINE_CRYPTO_KEY' = VALINE_CRYPTO_KEY
    /\ resetCall' = [called |-> TRUE, currentKey |-> VALINE_CRYPTO_KEY]
    /\ UNCHANGED <<adviceVars, formVars, lifeVars, hookVars>>
    /\ UNCHANGED <<cap, VALINE_CRYPTO_SALT, pbkdf2Iterations, saltLength,
                   deviceVars, codecVars, pageVars, keyVars, legacyVars>>

\* A page whose scripts call the configuration functions.
SettingsNext ==
    \/ \E path \in ConfigPaths, value \in ConfigValues :
           setValineCryptoConfig(path, value)
    \/ \E presetName \in PresetNames : applyValineCryptoPreset(presetName)
    \/ resetValineCryptoConfig

SettingsSpec == PageInit /\ [][SettingsNext]_vars

----------------------------------------------------------------------------
(* The two payload families.                                                *)

\* C11: the families never collide.  No payload the primary path produced,
\* whatever its nonce and ciphertext bytes, is classified as fallback-family
\* by decode.
C11_FamiliesNeverCollide ==
    (enc.called /\ ~enc.caught) => ~IsFallbackPayload(enc.result.v)

----------------------------------------------------------------------------
(* Decoding a fallback payload.                                             *)

\* C12 as stated: decode of a fallback-family payload always ends in the
\* Decrypted state.  For every payload the fallback produced and every secret
\* and salt, right or wrong, decode returns a text, never a failure result.
C12_FallbackAlwaysText ==
    (dec.called /\ enc.caught /\ VALINE_CRYPTO_SALT = <<>>
        /\ IsFallbackPayload(dec.encryptedBase64))
    => dec.result.ok

\* C12, as the code has it: decode of a fallback-family payload ends in the
\* Decrypted state or in the failure state.  For every payload of the
\* fallback family and every secret and salt, decode returns a text or null,
\* and never throws.
C12_FallbackTextOrNull ==
    (dec.called /\ IsFallbackPayload(dec.encryptedBase64))
    => (dec.result.ok \/ dec.result = Null)

\* A payload the fallback produced was decoded to null.
C12_Witness ==
    /\ dec.called /\ enc.caught
    /\ IsFallbackPayload(dec.encryptedBase64)
    /\ dec.result = Null

----------------------------------------------------------------------------
(* The nonce of the primary path.                                           *)

\* The first IV_LENGTH bytes of a payload.
Nonce(payload) ==
    LET bytes == atob(payload).v
    IN  SubSeq(bytes, 1, IF Len(bytes) < IV_LENGTH THEN Len(bytes) ELSE IV_LENGTH)

\* C13: every primary-path encode call draws a fresh random 12-byte nonce
\* inside the call, never taken from an argument, configuration or state kept
\* between calls: two primary encodes with the same arguments, under the same
\* configuration, carry nonces of IV_LENGTH bytes that differ.
C13_FreshNonce ==
    (enc.called /\ again.called /\ ~enc.caught /\ ~again.caught)
    => /\ Len(Nonce(enc.result.v)) = IV_LENGTH
       /\ Len(Nonce(again.result.v)) = IV_LENGTH
       /\ Nonce(enc.result.v) # Nonce(again.result.v)

\* Two primary encodes with the same arguments have returned.
C13_Witness ==
    /\ enc.called /\ again.called
    /\ ~enc.caught /\ ~again.caught
    /\ enc.result.ok /\ again.result.ok

----------------------------------------------------------------------------
(* Invalid configuration values.                                            *)

\* C16: an invalid configured iteration count makes encode fail fast with an
\* error; it never silently diverts encode to the fallback cipher.  When
\* crypto.subtle is there and security.pbkdf2Iterations is a count PBKDF2
\* rejects, encrypt throws and produces no payload.
C16_InvalidIterationsFailFast ==
    (enc.called /\ cap = "full" /\ pbkdf2Iterations # 0
        /\ ~ValidIterations(pbkdf2Iterations))
    => (enc.result.thrown /\ ~enc.caught)

----------------------------------------------------------------------------
(* The ambient globals.                                                     *)

\* C14: the result of encode and decode depends only on their arguments.
\* For fixed (secret, salt) the key decode derives for a primary payload is
\* the key encode derived, whatever VALINE_CRYPTO_CONFIG.security holds at the
\* time of each call.
C14_KeyDependsOnArgumentsOnly ==
    (SameArguments /\ enc.key.ok /\ ~IsFallbackPayload(enc.result.v))
    => (dec.key.ok /\ dec.key.v = enc.key.v)

----------------------------------------------------------------------------
(* Arguments of any kind.                                                   *)

\* C15: key derivation fails when the secret is empty.  From an empty secret
\* no key is derived and no payload is produced: encrypt throws.
C15_EmptySecretRejected ==
    (enc.called /\ enc.masterKey = <<>>)
    => (~enc.key.ok /\ enc.result.thrown)

\* C17: decode never crashes the caller.  For every input string (a payload
\* cut short, a string that is not base64, a body shorter than the nonce),
\* every secret and every salt, decrypt completes with a text or with null,
\* and never throws or rejects.
C17_DecryptNeverThrows ==
    dec.called => (dec.result.ok \/ dec.result = Null)

\* decrypt was given a string that is not base64, and returned null from its
\* catch clause.
C17_Witness ==
    /\ dec.called
    /\ ~atob(dec.encryptedBase64).ok
    /\ dec.caught
    /\ dec.result = Null

----------------------------------------------------------------------------
(* The first module.                                                        *)

\* C18 as stated: for a record {encryptedData, iv, salt} produced by
\* encrypt(P, pw), decrypting with any other password or with any altered
\* field returns null, never a string and never a thrown error.
C18_WrongOrAlteredIsNull ==
    (/\ dcomment.called
     /\ \/ dcomment.password # ecomment.password
        \/ dcomment.encryptedComment # ecomment.result.v)
    => dcomment.result = Null

\* The password and the fields decrypt was given stand for the bytes encrypt
\* used: the same UTF-8 encoding, the same base64-decoded bytes.
SameBytes ==
    /\ TextEncode(dcomment.password) = TextEncode(ecomment.password)
    /\ \A field \in Fields :
          base64ToBuffer(dcomment.encryptedComment[field])
              = base64ToBuffer(ecomment.result.v[field])

\* C18, as the code has it: for a record produced by encrypt(P, pw),
\* decrypting with a password whose UTF-8 encoding differs, or with a field
\* altered so that it no longer decodes to the same bytes, returns null,
\* never a string and never a thrown error.
C18_DifferentBytesIsNull ==
    (dcomment.called /\ ~SameBytes) => dcomment.result = Null

\* A record with one changed byte was decrypted to null.
C18_Witness ==
    /\ dcomment.called
    /\ dcomment.kind = "flip"
    /\ dcomment.password = ecomment.password
    /\ dcomment.result = Null

----------------------------------------------------------------------------
(* The stored key.                                                          *)

\* C19: secret persistence obeys a get/set/clear contract.  After
\* saveKey(k, true) getKey() returns exactly k, for every key string k that
\* is not empty; after clearKey() or saveKey(k, false) getKey() returns null.
C19_GetSetClear ==
    keyCall.called =>
        /\ (keyCall.op = "saveKey" /\ keyCall.remember /\ keyCall.key # <<>>)
               => getKey(keyItem) = Ok(keyCall.key)
        /\ (keyCall.op = "clearKey" \/ ~keyCall.remember)
               => getKey(keyItem) = Null

\* C20: when security.allowKeyStorage is false, no key submission, with the
\* remember box checked or not, writes the key to localStorage: after the
\* submission the item is the one there was, or there is none.
C20_NoStorageWhenDisallowed ==
    (/\ keyCall.called
     /\ keyCall.op = "handleKeySubmit"
     /\ ~keyCall.allowKeyStorage)
    => (keyItem = keyCall.before \/ keyItem = NoItem)

----------------------------------------------------------------------------
(* The configuration functions.                                             *)

\* C21: resetValineCryptoConfig resets the configuration to its default
\* values.  After any sequence of setValineCryptoConfig and
\* applyValineCryptoPreset calls, a call leaves security.pbkdf2Iterations and
\* security.saltLength at the values of the configuration file, and
\* VALINE_CRYPTO_KEY at the value it had before the call.
C21_ResetRestoresDefaults ==
    resetCall.called =>
        /\ pbkdf2Iterations = DEFAULT_ITERATIONS
        /\ saltLength = DEFAULT_SALT_LENGTH
        /\ VALINE_CRYPTO_KEY = resetCall.currentKey

----------------------------------------------------------------------------
(* The key-strength advisory.                                               *)

\* Whether a passphrase has a character of the class.
HasClass(key, class) == \E k \in 1..Len(key) : key[k] \in class

\* A passphrase mixes character classes: it has characters of two of
\* upper-case, lower-case, digit and special.
MixesClasses(key) ==
    \E c \in KeyClasses, e \in KeyClasses :
        c # e /\ HasClass(key, c) /\ HasClass(key, e)

\* C22: the key-strength advisory classifies a passphrase as acceptable
\* exactly when its length is at least 8 and it mixes character classes;
\* every other passphrase, the empty one included, gets valid = false with a
\* message.
C22_AdvisoryClassifies ==
    validation.called =>
        /\ validation.result.valid
              <=> (Len(validation.key) >= 8 /\ MixesClasses(validation.key))
        /\ ~validation.result.valid => validation.result.message # "none"

\* A passphrase of eight characters of one class was classified.
C22_Witness ==
    /\ validation.called
    /\ Len(validation.key) = 8
    /\ ~MixesClasses(validation.key)
    /\ ~validation.result.valid

----------------------------------------------------------------------------
(* The submit button.                                                       *)

\* C23: when the private-comment checkbox is checked at the moment the
\* submit button is clicked, the plaintext never reaches Valine's own submit
\* handler: a text that handler gets on such a click starts with the
\* encryption marker.
C23_PlaintextNeverReachesWidget ==
    \A k \in 1..Len(widgetSubmits) :
        LET s == widgetSubmits[k]
        IN  clicks[s.click].checked /\ Trim(s.text) # <<>>
                => StartsWith(s.text, ENCRYPTION_MARKER)

\* The click a click event goes back to: itself, or the click whose
\* listener run has set the timer that made it.
RECURSIVE RootClick(_)
RootClick(id) == IF clicks[id].origin = 0 THEN id ELSE RootClick(clicks[id].origin)

\* How many times Valine's submit handler has run for a click.
SubmitsFor(id) ==
    Cardinality({k \in 1..Len(widgetSubmits) :
                    RootClick(widgetSubmits[k].click) = id})

\* Whether something of a click is still pending.
PendingFor(id) ==
    \/ \E run \in running : RootClick(run.click) = id
    \/ \E timer \in clickTimers : RootClick(timer) = id

\* C24: for each click on submit with the private-comment checkbox checked
\* and a comment typed, Valine's submit handler runs exactly once: never
\* twice, and once when nothing of the click is pending any more.
C24_SubmittedExactlyOnce ==
    \A id \in 1..Len(clicks) :
        clicks[id].origin = 0 /\ clicks[id].checked
                              /\ Trim(clicks[id].value) # <<>>
            => /\ SubmitsFor(id) <= 1
               /\ ~PendingFor(id) => SubmitsFor(id) = 1

----------------------------------------------------------------------------
(* Unlocking with a key.                                                    *)

\* C25: an unlock with a key other than the one the comments were encrypted
\* with ("k1") never changes what a comment displays and never marks a
\* comment as decrypted, an already decrypted comment included.
C25_WrongKeyChangesNothing ==
    (/\ keyCall.called
     /\ keyCall.op = "handleKeySubmit"
     /\ keyCall.key # <<107, 49>>)
    => keyCall.changed = {}

----------------------------------------------------------------------------
(* InitManager.                                                             *)

\* C26: initialization retries are bounded.  Under any interleaving of the
\* immediate start, DOMContentLoaded, load and Ctrl+Shift+E,
\* InitManager.attemptCount never exceeds maxAttempts, the body of
\* initCrypto runs at most maxAttempts times, and no step taken while Valine
\* is ready sets a retry timer.
C26_RetriesBounded ==
    /\ [](attemptCount <= maxAttempts /\ initRuns <= maxAttempts)
    /\ [][valineReady => retryTimers' <= retryTimers]_vars

\* The limit has been reached in a page where Valine became ready while
\* retries were pending, after both events and with the form enhanced.
C26_Witness ==
    /\ attemptCount = maxAttempts
    /\ initRuns = maxAttempts
    /\ valineReady
    /\ readyState = "complete"
    /\ form.options = 1
    /\ retryTimers > 0

----------------------------------------------------------------------------
(* The enhanced page.                                                       *)

C28_HandledOnce ==
    \A i \in 1..Len(comments) :
        comments[i].classified <= 1 /\ comments[i].handled <= 1

\* An encrypted comment was handled, and processComments has run again
\* after it from the debounce timer.
C28_Witness ==
    /\ Len(comments) = MaxComments
    /\ \A i \in 1..Len(comments) : comments[i].handled = 1
    /\ comments[1].decrypted
    /\ ~processTimeout /\ ~mutated
    /\ globalUnlockButton = 1

\* C29: comment processing reaches quiescence.  Once Valine stops adding
\* comments, the observers' callback is eventually no longer pending and the
\* debounce timer is eventually no longer armed, for good.
C29_Quiescence == <>[](~mutated /\ ~processTimeout)

\* The changes of processComments have armed the debounce timer: an
\* encrypted display is shown and the timer is pending.
C29_Witness ==
    /\ processTimeout
    /\ \E i \in 1..Len(comments) :
           comments[i].textContent = EncryptedDisplayText
    /\ globalUnlockButton = 1

----------------------------------------------------------------------------
(* The first module's hook.                                                 *)

\* C30: load order does not matter for the first module.  When a
\* constructor is assigned to window.Valine after the module has set its
\* hook, the assignment succeeds, window.Valine reads back as the assigned
\* constructor, and extendValine extends its prototype.init.
C30_LateValineExtended ==
    (/\ assignment.called
     /\ assignment.hooked
     /\ IsFunction(assignment.newValine))
    => /\ ~assignment.thrown
       /\ assignment.readBack = assignment.newValine
       /\ assignment.extended

=============================================================================
